---- MODULE Spec2Model ----
(***************************************************************************)
(* A model of the CNXML -> PreTeXt converters of osbooks-statistics:       *)
(* convert_ch06.py, convert_ch06_full.py, convert_ch09_full.py,            *)
(* convert_ch11.py and convert_appendices.py.                              *)
(*                                                                         *)
(* Representation.  A Python string is a sequence of characters; a         *)
(* character is a one-character TLA+ string.  A piece of markup or a LaTeX *)
(* command that the converter emits from a literal of its own ("<p>",      *)
(* "\\frac{", "\\mu") is one element of the sequence, so that emitted      *)
(* markup and copied source text stay apart.  Text that the escaping       *)
(* functions produce ("&amp;") is kept character by character, because the *)
(* escaping functions look for it character by character.                  *)
(*                                                                         *)
(* An ElementTree element is a record                                      *)
(*   [ns, tag, attrib, text, kids, tail]                                   *)
(* where ns is "c" (CNXML) or "m" (MathML), attrib a function from         *)
(* attribute names to strings, text and tail strings (<<>> for None and    *)
(* for the empty string, which every use in the sources treats alike) and  *)
(* kids the sequence of child elements.                                    *)
(***************************************************************************)
EXTENDS Integers, Sequences, FiniteSets, TLC

VARIABLES
    variant,   \* which converter script is running
    elem,      \* the parsed source element handed to the operation
    result,    \* the value the operation returned
    exc,       \* the exception the operation raised, "none" if it returned
    pc         \* "ready" before the call, "done" after it

vars == <<variant, elem, result, exc, pc>>

(***************************************************************************)
(* Python built-ins on strings.                                            *)
(***************************************************************************)
WS == {" ", "\n", "\t"}

RECURSIVE lstrip(_)
lstrip(s) == IF s # <<>> /\ Head(s) \in WS THEN lstrip(Tail(s)) ELSE s

RECURSIVE rstrip(_)
rstrip(s) ==
    IF s # <<>> /\ s[Len(s)] \in WS THEN rstrip(SubSeq(s, 1, Len(s) - 1)) ELSE s

\* str.strip()
strip(s) == rstrip(lstrip(s))

\* ''.join(parts)
RECURSIVE Flatten(_)
Flatten(parts) == IF parts = <<>> THEN <<>> ELSE Head(parts) \o Flatten(Tail(parts))

\* sep.join(parts)
RECURSIVE Join(_, _)
Join(sep, parts) ==
    IF parts = <<>> THEN <<>>
    ELSE IF Len(parts) = 1 THEN Head(parts)
    ELSE Head(parts) \o sep \o Join(sep, Tail(parts))

\* s.startswith(old)
StartsWith(s, old) == Len(s) >= Len(old) /\ SubSeq(s, 1, Len(old)) = old

\* s.replace(old, new): leftmost non-overlapping occurrences, the result is
\* not scanned again.
RECURSIVE Replace(_, _, _)
Replace(s, old, new) ==
    IF s = <<>> THEN <<>>
    ELSE IF StartsWith(s, old)
         THEN new \o Replace(SubSeq(s, Len(old) + 1, Len(s)), old, new)
         ELSE <<Head(s)>> \o Replace(Tail(s), old, new)

\* for old, new in table.items(): text = text.replace(old, new), for a table
\* whose keys are single characters and whose values hold no key: every
\* character that is a key is replaced by its value.
ReplaceAll(text, table) ==
    [i \in 1..Len(text) |-> IF text[i] \in DOMAIN table THEN table[text[i]] ELSE text[i]]

\* d.get(key, default), for a dict keyed by strings
DictGet(d, key, default) == IF key \in DOMAIN d THEN d[key] ELSE default

\* elem.get(name, default)
Attr(e, name, default) == IF name \in DOMAIN e.attrib THEN e.attrib[name] ELSE default

NoAttrib == [a \in {} |-> <<>>]

Node(ns, tag, attrib, text, kids, tail) ==
    [ns |-> ns, tag |-> tag, attrib |-> attrib, text |-> text, kids |-> kids, tail |-> tail]

\* A MathML element without attributes or tail text.
M(tag, text, kids) == Node("m", tag, NoAttrib, text, kids, <<>>)

(***************************************************************************)
(* The Math Rewriter: convert_mathml_to_latex, one definition per script.  *)
(* convert_ch09_full.py holds a copy of convert_ch06_full.py's.            *)
(***************************************************************************)

\* The symbol tables.  A character outside ASCII is written by its code point
\* ("U+03BC" is the Greek small letter mu); a command a table yields is one
\* element.  "replacements" tables are applied with str.replace and are keyed
\* by character; the others are looked up with dict.get and are keyed by string.

\* convert_ch06_full.py: replacements
replacements_ch06_full ==
    ("U+03BC" :> "\\mu") @@ ("U+03C3" :> "\\sigma") @@ ("U+03C0" :> "\\pi") @@
    ("U+03B8" :> "\\theta") @@ ("U+2212" :> "-") @@ ("U+2013" :> "-") @@
    ("U+2264" :> "\\leq") @@ ("U+2265" :> "\\geq") @@ ("U+2248" :> "\\approx") @@
    ("U+223C" :> "\\sim") @@ ("~" :> "\\sim") @@ ("U+221E" :> "\\infty") @@
    ("U+2260" :> "\\neq") @@ ("U+00D7" :> "\\times") @@ ("U+00B7" :> "\\cdot") @@
    ("U+2026" :> "\\ldots") @@ ("U+00B1" :> "\\pm")

\* convert_ch06_full.py: greek
greek_ch06_full ==
    (<<"U+03BC">> :> <<"\\mu">>) @@ (<<"U+03C3">> :> <<"\\sigma">>) @@
    (<<"U+03C0">> :> <<"\\pi">>) @@ (<<"U+03B8">> :> <<"\\theta">>) @@
    (<<"U+03A3">> :> <<"\\Sigma">>)

\* convert_ch06_full.py: ops
ops_ch06_full ==
    (<<"U+2212">> :> <<"-">>) @@ (<<"U+2013">> :> <<"-">>) @@
    (<<"U+223C">> :> <<"\\sim">>) @@ (<<"~">> :> <<"\\sim">>) @@
    (<<"U+2264">> :> <<"\\leq">>) @@ (<<"U+2265">> :> <<"\\geq">>) @@
    (<<"U+2248">> :> <<"\\approx">>) @@ (<<"U+00D7">> :> <<"\\times">>) @@
    (<<"U+00B7">> :> <<"\\cdot">>) @@ (<<"U+2260">> :> <<"\\neq">>) @@
    (<<"U+00B1">> :> <<"\\pm">>)

\* convert_ch11.py: replacements
replacements_ch11 ==
    ("U+03BC" :> "\\mu") @@ ("U+03C3" :> "\\sigma") @@ ("U+03C0" :> "\\pi") @@
    ("U+03B8" :> "\\theta") @@ ("U+03C7" :> "\\chi") @@ ("U+03A3" :> "\\Sigma") @@
    ("U+2212" :> "-") @@ ("U+2013" :> "-") @@ ("U+2264" :> "\\leq") @@
    ("U+2265" :> "\\geq") @@ ("U+2248" :> "\\approx") @@ ("U+223C" :> "\\sim") @@
    ("~" :> "\\sim") @@ ("U+221E" :> "\\infty") @@ ("U+2260" :> "\\neq") @@
    ("U+00D7" :> "\\times") @@ ("U+00B7" :> "\\cdot") @@ ("U+2026" :> "\\ldots") @@
    ("U+00B1" :> "\\pm")

\* convert_ch11.py: greek
greek_ch11 ==
    (<<"U+03BC">> :> <<"\\mu">>) @@ (<<"U+03C3">> :> <<"\\sigma">>) @@
    (<<"U+03C0">> :> <<"\\pi">>) @@ (<<"U+03B8">> :> <<"\\theta">>) @@
    (<<"U+03A3">> :> <<"\\Sigma">>) @@ (<<"U+03C7">> :> <<"\\chi">>)

\* convert_ch11.py: ops
ops_ch11 ==
    (<<"U+2212">> :> <<"-">>) @@ (<<"U+2013">> :> <<"-">>) @@
    (<<"U+223C">> :> <<"\\sim">>) @@ (<<"~">> :> <<"\\sim">>) @@
    (<<"U+2264">> :> <<"\\leq">>) @@ (<<"U+2265">> :> <<"\\geq">>) @@
    (<<"U+2248">> :> <<"\\approx">>) @@ (<<"U+00D7">> :> <<"\\times">>) @@
    (<<"U+00B7">> :> <<"\\cdot">>) @@ (<<"U+2260">> :> <<"\\neq">>) @@
    (<<"U+00B1">> :> <<"\\pm">>) @@ (<<"U+03A3">> :> <<"\\sum">>)

\* convert_appendices.py: replacements
replacements_appendices ==
    ("U+03BC" :> "\\mu") @@ ("U+03C3" :> "\\sigma") @@ ("U+03C0" :> "\\pi") @@
    ("U+03B8" :> "\\theta") @@ ("U+2212" :> "-") @@ ("U+2013" :> "-") @@
    ("U+2264" :> "\\leq") @@ ("U+2265" :> "\\geq") @@ ("U+2248" :> "\\approx") @@
    ("U+223C" :> "\\sim") @@ ("~" :> "\\sim") @@ ("U+221E" :> "\\infty") @@
    ("U+2260" :> "\\neq") @@ ("U+00D7" :> "\\times") @@ ("U+00B7" :> "\\cdot") @@
    ("U+2026" :> "\\ldots") @@ ("U+00B1" :> "\\pm") @@ ("U+03B1" :> "\\alpha") @@
    ("U+03B2" :> "\\beta") @@ ("U+03C7" :> "\\chi") @@ ("U+03A3" :> "\\Sigma") @@
    ("U+03BB" :> "\\lambda") @@ ("U+03B3" :> "\\gamma") @@ ("U+0394" :> "\\Delta") @@
    ("U+03B4" :> "\\delta") @@ ("U+03B5" :> "\\varepsilon") @@ ("U+03C1" :> "\\rho") @@
    ("U+03C9" :> "\\omega") @@ ("U+03A9" :> "\\Omega") @@ ("U+221A" :> "\\sqrt") @@
    ("U+2211" :> "\\sum") @@ ("U+222B" :> "\\int") @@ ("U+2202" :> "\\partial") @@
    ("U+2208" :> "\\in") @@ ("U+2209" :> "\\notin") @@ ("U+2200" :> "\\forall") @@
    ("U+2203" :> "\\exists") @@ ("U+2282" :> "\\subset") @@ ("U+2283" :> "\\supset") @@
    ("U+2286" :> "\\subseteq") @@ ("U+2287" :> "\\supseteq") @@ ("U+222A" :> "\\cup") @@
    ("U+2229" :> "\\cap") @@ ("U+2205" :> "\\emptyset") @@ ("U+221D" :> "\\propto") @@
    ("U+2194" :> "\\leftrightarrow") @@ ("U+2192" :> "\\rightarrow") @@
    ("U+2190" :> "\\leftarrow") @@ ("U+21D2" :> "\\Rightarrow") @@
    ("U+21D0" :> "\\Leftarrow") @@ ("U+21D4" :> "\\Leftrightarrow") @@
    ("U+00AC" :> "\\neg") @@ ("U+2227" :> "\\wedge") @@ ("U+2228" :> "\\vee") @@
    ("U+00B0" :> "^\\circ")

\* convert_appendices.py: ops
ops_appendices ==
    (<<"U+2212">> :> <<"-">>) @@ (<<"U+2264">> :> <<"\\leq">>) @@
    (<<"U+2265">> :> <<"\\geq">>) @@ (<<"U+2248">> :> <<"\\approx">>) @@
    (<<"U+00D7">> :> <<"\\times">>) @@ (<<"U+00F7">> :> <<"\\div">>) @@
    (<<"U+221E">> :> <<"\\infty">>) @@ (<<"U+2260">> :> <<"\\neq">>) @@
    (<<"U+00B1">> :> <<"\\pm">>) @@ (<<"U+2213">> :> <<"\\mp">>) @@
    (<<"U+00B7">> :> <<"\\cdot">>) @@ (<<"U+2218">> :> <<"\\circ">>) @@
    (<<"U+2211">> :> <<"\\sum">>) @@ (<<"U+220F">> :> <<"\\prod">>) @@
    (<<"U+222B">> :> <<"\\int">>) @@ (<<"U+221A">> :> <<"\\sqrt">>) @@
    (<<"U+2202">> :> <<"\\partial">>) @@ (<<"U+2207">> :> <<"\\nabla">>) @@
    (<<"U+2206">> :> <<"\\Delta">>) @@ (<<"U+2295">> :> <<"\\oplus">>) @@
    (<<"U+2297">> :> <<"\\otimes">>)

\* convert_ch06.py: replacements
replacements_ch06 ==
    ("U+03BC" :> "\\mu") @@ ("U+03C3" :> "\\sigma") @@ ("U+03C0" :> "\\pi") @@
    ("U+2212" :> "-") @@ ("U+2013" :> "-") @@ ("U+2264" :> "\\leq") @@
    ("U+2265" :> "\\geq") @@ ("U+2248" :> "\\approx") @@ ("U+223C" :> "\\sim") @@
    ("~" :> "\\sim") @@ ("U+221E" :> "\\infty") @@ ("U+2260" :> "\\neq")

\* convert_ch06.py: greek_map
greek_map_ch06 ==
    (<<"U+03BC">> :> <<"\\mu">>) @@ (<<"s", "i", "g", "m", "a">> :> <<"\\sigma">>) @@
    (<<"U+03C3">> :> <<"\\sigma">>) @@ (<<"U+03C0">> :> <<"\\pi">>) @@
    (<<"t", "h", "e", "t", "a">> :> <<"\\theta">>) @@ (<<"U+03B8">> :> <<"\\theta">>)

\* convert_ch06.py: op_map
op_map_ch06 ==
    (<<"U+2212">> :> <<"-">>) @@ (<<"U+2013">> :> <<"-">>) @@
    (<<"U+223C">> :> <<"\\sim">>) @@ (<<"~">> :> <<"\\sim">>) @@
    (<<"U+2264">> :> <<"\\leq">>) @@ (<<"U+2265">> :> <<"\\geq">>) @@
    (<<"U+2248">> :> <<"\\approx">>) @@ (<<"U+00D7">> :> <<"\\times">>) @@
    (<<"U+00B7">> :> <<"\\cdot">>) @@ (<<"U+2260">> :> <<"\\neq">>)


RECURSIVE convert_mathml_to_latex_ch06_full(_)

\* the rows of an mtable child: ' '.join(cells) for every row that has cells
mtable_rows_ch06_full(child) ==
    LET row_text(row) ==
            Join(<<" ">>, [j \in 1..Len(row.kids) |->
                               convert_mathml_to_latex_ch06_full(row.kids[j])])
        nonempty == SelectSeq(child.kids, LAMBDA row : Len(row.kids) > 0)
    IN  [i \in 1..Len(nonempty) |-> row_text(nonempty[i])]

\* one pass of the loop "for child in elem", without the tail text
child_latex_ch06_full(child) ==
    LET ctag == child.tag
        ctext == strip(child.text)
        n == Len(child.kids)
        \* convert_mathml_to_latex(child[i-1]) if len(child) > i-1 else ''
        arg(i) == IF n > i - 1 THEN convert_mathml_to_latex_ch06_full(child.kids[i]) ELSE <<>>
    IN  CASE ctag = "mi" -> DictGet(greek_ch06_full, ctext, ctext)
          [] ctag = "mn" -> ctext
          [] ctag = "mo" -> DictGet(ops_ch06_full, ctext, ctext)
          [] ctag = "mtext" -> IF ctext # <<>> THEN <<"\\text{">> \o ctext \o <<"}">> ELSE <<>>
          [] ctag = "mfrac" -> <<"\\frac{">> \o arg(1) \o <<"}{">> \o arg(2) \o <<"}">>
          [] ctag = "msub" -> arg(1) \o <<"_{">> \o arg(2) \o <<"}">>
          [] ctag = "msup" -> arg(1) \o <<"^{">> \o arg(2) \o <<"}">>
          [] ctag = "mover" ->
                IF n > 1 /\ strip(child.kids[2].text) = <<"U+00AF">>
                THEN <<"\\overline{">> \o arg(1) \o <<"}">>
                ELSE arg(1)
          [] ctag = "msqrt" -> <<"\\sqrt{">> \o arg(1) \o <<"}">>
          [] ctag = "mrow" -> convert_mathml_to_latex_ch06_full(child)
          [] ctag = "mtable" ->
                LET rows == mtable_rows_ch06_full(child)
                IN  IF rows # <<>> THEN Join(<<" ", "\\\\", " ">>, rows) ELSE <<>>
          [] OTHER -> convert_mathml_to_latex_ch06_full(child)

\* the tail text of a child, stripped, appended when it is not empty
math_tail(child) == strip(child.tail)

convert_mathml_to_latex_ch06_full(e) ==
    LET text == strip(e.text)
    IN  IF text # <<>> /\ Len(e.kids) = 0
        THEN ReplaceAll(text, replacements_ch06_full)
        ELSE Flatten([i \in 1..Len(e.kids) |->
                         child_latex_ch06_full(e.kids[i]) \o math_tail(e.kids[i])])

(***************************************************************************)
(* convert_ch11.py                                                         *)
(***************************************************************************)
RECURSIVE convert_mathml_to_latex_ch11(_)

mtable_rows_ch11(child) ==
    LET row_text(row) ==
            Join(<<" ">>, [j \in 1..Len(row.kids) |->
                               convert_mathml_to_latex_ch11(row.kids[j])])
        nonempty == SelectSeq(child.kids, LAMBDA row : Len(row.kids) > 0)
    IN  [i \in 1..Len(nonempty) |-> row_text(nonempty[i])]

\* if base == r'\Sigma': base = r'\sum'
limit_base_ch11(base) == IF base = <<"\\Sigma">> THEN <<"\\sum">> ELSE base

child_latex_ch11(child) ==
    LET ctag == child.tag
        ctext == strip(child.text)
        n == Len(child.kids)
        arg(i) == IF n > i - 1 THEN convert_mathml_to_latex_ch11(child.kids[i]) ELSE <<>>
    IN  CASE ctag = "mi" -> DictGet(greek_ch11, ctext, ctext)
          [] ctag = "mn" -> ctext
          [] ctag = "mo" -> DictGet(ops_ch11, ctext, ctext)
          [] ctag = "mtext" -> IF ctext # <<>> THEN <<"\\text{">> \o ctext \o <<"}">> ELSE <<>>
          [] ctag = "mfrac" -> <<"\\frac{">> \o arg(1) \o <<"}{">> \o arg(2) \o <<"}">>
          [] ctag = "msub" -> arg(1) \o <<"_{">> \o arg(2) \o <<"}">>
          [] ctag = "msup" -> arg(1) \o <<"^{">> \o arg(2) \o <<"}">>
          [] ctag = "msubsup" ->
                arg(1) \o <<"_{">> \o arg(2) \o <<"}^{">> \o arg(3) \o <<"}">>
          [] ctag = "mover" ->
                IF n > 1 /\ strip(child.kids[2].text) = <<"U+00AF">>
                THEN <<"\\overline{">> \o arg(1) \o <<"}">>
                ELSE arg(1)
          [] ctag = "msqrt" -> <<"\\sqrt{">> \o arg(1) \o <<"}">>
          [] ctag = "munderover" ->
                limit_base_ch11(arg(1)) \o <<"_{">> \o arg(2) \o <<"}^{">> \o arg(3) \o <<"}">>
          [] ctag = "munder" -> limit_base_ch11(arg(1)) \o <<"_{">> \o arg(2) \o <<"}">>
          [] ctag = "mrow" -> convert_mathml_to_latex_ch11(child)
          [] ctag = "mtable" ->
                LET rows == mtable_rows_ch11(child)
                IN  IF rows # <<>> THEN Join(<<" ", "\\\\", " ">>, rows) ELSE <<>>
          [] OTHER -> convert_mathml_to_latex_ch11(child)

convert_mathml_to_latex_ch11(e) ==
    LET text == strip(e.text)
    IN  IF text # <<>> /\ Len(e.kids) = 0
        THEN ReplaceAll(text, replacements_ch11)
        ELSE Flatten([i \in 1..Len(e.kids) |->
                         child_latex_ch11(e.kids[i]) \o math_tail(e.kids[i])])

(***************************************************************************)
(* convert_appendices.py                                                   *)
(***************************************************************************)
fence_map_appendices ==
    (<<"(">> :> <<"\\left(">>) @@ (<<")">> :> <<"\\right)">>) @@
    (<<"[">> :> <<"\\left[">>) @@ (<<"]">> :> <<"\\right]">>) @@
    (<<"{">> :> <<"\\left\\{">>) @@ (<<"}">> :> <<"\\right\\}">>) @@
    (<<"|">> :> <<"\\left|">>)

RECURSIVE convert_mathml_to_latex_appendices(_)

\* the lines an mtable child appends: \begin{matrix}, one per mtr row, \end{matrix}
mtable_appendices(child) ==
    LET mtr == SelectSeq(child.kids, LAMBDA row : row.tag = "mtr")
        row_text(row) ==
            Join(<<" ", "&", " ">>, [j \in 1..Len(row.kids) |->
                                        convert_mathml_to_latex_appendices(row.kids[j])])
            \o <<"\\\\">>
    IN  <<"\\begin{matrix}">>
        \o Flatten([i \in 1..Len(mtr) |-> row_text(mtr[i])])
        \o <<"\\end{matrix}">>

child_latex_appendices(child) ==
    LET ctag == child.tag
        ctext == strip(child.text)
        n == Len(child.kids)
        arg(i) == convert_mathml_to_latex_appendices(child.kids[i])
    IN  CASE ctag = "mi" -> ctext
          [] ctag = "mn" -> ctext
          [] ctag = "mo" -> IF ctext # <<>> THEN DictGet(ops_appendices, ctext, ctext) ELSE <<>>
          [] ctag = "msub" ->
                IF n >= 2 THEN arg(1) \o <<"_{">> \o arg(2) \o <<"}">> ELSE <<>>
          [] ctag = "msup" ->
                IF n >= 2 THEN arg(1) \o <<"^{">> \o arg(2) \o <<"}">> ELSE <<>>
          [] ctag = "msubsup" ->
                IF n >= 3
                THEN arg(1) \o <<"_{">> \o arg(2) \o <<"}^{">> \o arg(3) \o <<"}">>
                ELSE <<>>
          [] ctag = "mfrac" ->
                IF n >= 2
                THEN <<"\\frac{">> \o arg(1) \o <<"}{">> \o arg(2) \o <<"}">>
                ELSE <<>>
          [] ctag = "mrow" -> convert_mathml_to_latex_appendices(child)
          [] ctag = "msqrt" ->
                <<"\\sqrt{">> \o convert_mathml_to_latex_appendices(child) \o <<"}">>
          [] ctag = "mroot" ->
                IF n >= 2 THEN <<"\\sqrt[">> \o arg(2) \o <<"]{">> \o arg(1) \o <<"}">> ELSE <<>>
          [] ctag = "mtext" -> IF ctext # <<>> THEN <<"\\text{">> \o ctext \o <<"}">> ELSE <<>>
          [] ctag = "mspace" -> <<"\\;">>
          [] ctag = "mfenced" ->
                LET open_fence == Attr(child, "open", <<"(">>)
                    close_fence == Attr(child, "close", <<")">>)
                IN  DictGet(fence_map_appendices, open_fence, open_fence)
                    \o convert_mathml_to_latex_appendices(child)
                    \o DictGet(fence_map_appendices, close_fence, close_fence)
          [] ctag = "mtable" -> mtable_appendices(child)
          [] ctag = "mover" ->
                IF n >= 2
                THEN LET base == arg(1)
                         accent == arg(2)
                     IN  IF accent = <<"U+00AF">> THEN <<"\\overline{">> \o base \o <<"}">>
                         ELSE IF accent = <<"^">> THEN <<"\\hat{">> \o base \o <<"}">>
                         ELSE IF accent = <<"~">> THEN <<"\\tilde{">> \o base \o <<"}">>
                         ELSE <<"\\overset{">> \o accent \o <<"}{">> \o base \o <<"}">>
                ELSE <<>>
          [] ctag = "munder" ->
                IF n >= 2
                THEN <<"\\underset{">> \o arg(2) \o <<"}{">> \o arg(1) \o <<"}">>
                ELSE <<>>
          [] ctag = "munderover" ->
                IF n >= 3
                THEN arg(1) \o <<"_{">> \o arg(2) \o <<"}^{">> \o arg(3) \o <<"}">>
                ELSE <<>>
          [] OTHER -> convert_mathml_to_latex_appendices(child)

convert_mathml_to_latex_appendices(e) ==
    LET text == strip(e.text)
    IN  IF text # <<>> /\ Len(e.kids) = 0
        THEN ReplaceAll(text, replacements_appendices)
        ELSE Flatten([i \in 1..Len(e.kids) |->
                         child_latex_appendices(e.kids[i]) \o math_tail(e.kids[i])])

(***************************************************************************)
(* convert_ch06.py, the oldest variant                                     *)
(***************************************************************************)
RECURSIVE convert_mathml_to_latex_ch06(_)

child_latex_ch06(child) ==
    LET child_tag == child.tag
        n == Len(child.kids)
        arg(i) == IF n > i - 1 THEN convert_mathml_to_latex_ch06(child.kids[i]) ELSE <<>>
    IN  CASE child_tag = "mi" -> DictGet(greek_map_ch06, child.text, child.text)
          [] child_tag = "mn" -> child.text
          [] child_tag = "mo" -> DictGet(op_map_ch06, child.text, child.text)
          [] child_tag = "mfrac" -> <<"\\frac{">> \o arg(1) \o <<"}{">> \o arg(2) \o <<"}">>
          [] child_tag = "msub" -> arg(1) \o <<"_{">> \o arg(2) \o <<"}">>
          [] child_tag = "msup" -> arg(1) \o <<"^{">> \o arg(2) \o <<"}">>
          [] child_tag = "mover" ->
                LET over == IF n > 1 THEN child.kids[2].text ELSE <<>>
                IN  IF over = <<"U+00AF">>
                       \/ \E a \in DOMAIN child.attrib : child.attrib[a] = "accent"
                    THEN <<"\\bar{">> \o arg(1) \o <<"}">>
                    ELSE arg(1)
          [] child_tag = "msqrt" -> <<"\\sqrt{">> \o arg(1) \o <<"}">>
          [] child_tag = "mrow" -> convert_mathml_to_latex_ch06(child)
          [] child_tag = "mtext" -> child.text
          [] child_tag = "mtable" ->
                Flatten([i \in 1..Len(child.kids) |->
                    Flatten([j \in 1..Len(child.kids[i].kids) |->
                        convert_mathml_to_latex_ch06(child.kids[i].kids[j]) \o <<" ">>])])
          [] OTHER -> convert_mathml_to_latex_ch06(child)

convert_mathml_to_latex_ch06(mathml_elem) ==
    IF mathml_elem.text # <<>>
    THEN ReplaceAll(strip(mathml_elem.text), replacements_ch06)
    ELSE Flatten([i \in 1..Len(mathml_elem.kids) |->
                     child_latex_ch06(mathml_elem.kids[i]) \o mathml_elem.kids[i].tail])

\* The scripts; convert_ch09_full.py's rewriter is convert_ch06_full.py's
MathVariants == {"ch06", "ch06_full", "ch09_full", "ch11", "appendices"}

convert_mathml_to_latex(v, e) ==
    CASE v = "ch06" -> convert_mathml_to_latex_ch06(e)
      [] v \in {"ch06_full", "ch09_full"} -> convert_mathml_to_latex_ch06_full(e)
      [] v = "ch11" -> convert_mathml_to_latex_ch11(e)
      [] v = "appendices" -> convert_mathml_to_latex_appendices(e)

(***************************************************************************)
(* The Math Rewriter applied to bounded expression trees.                  *)
(***************************************************************************)
\* the largest number of operands given to a construct
MaxOperands == 3

\* all sequences over S of length at most n
SeqsUpTo(S, n) == UNION {[1..k -> S] : k \in 0..n}

MathLeaves ==
    { M("mi", <<"x">>, <<>>), M("mi", <<"U+03BC">>, <<>>),
      M("mn", <<"1">>, <<>>), M("mo", <<"U+221E">>, <<>>) }

MathOperands ==
    MathLeaves \cup { M("mrow", <<>>, <<M("mi", <<"x">>, <<>>), M("mo", <<"U+2212">>, <<>>)>>) }

ConstructTags ==
    {"mfrac", "msub", "msup", "msubsup", "munder", "munderover", "mroot", "mover",
     "msqrt", "mrow"}

MathConstructs ==
    { M(t, <<>>, ops) : t \in ConstructTags, ops \in SeqsUpTo(MathOperands, MaxOperands) }

\* a math or mrow parent holding one node; a math parent holding two leaves,
\* the first followed by tail text; a leaf handed to the rewriter itself
MathInputs ==
    { M(p, <<>>, <<c>>) : p \in {"math", "mrow"}, c \in MathOperands \cup MathConstructs }
    \cup { M("math", <<>>, <<[a EXCEPT !.tail = <<" ", "=", " ">>], b>>) :
               a \in MathLeaves, b \in MathLeaves }
    \cup MathLeaves

InitMath ==
    /\ variant \in MathVariants
    /\ elem \in MathInputs
    /\ result = <<>>
    /\ exc = "none"
    /\ pc = "ready"

\* latex = convert_mathml_to_latex(math_elem); no branch of it raises
RewriteMath ==
    /\ pc = "ready"
    /\ result' = convert_mathml_to_latex(variant, elem)
    /\ pc' = "done"
    /\ UNCHANGED <<variant, elem, exc>>

NextMath == RewriteMath

SpecMath == InitMath /\ [][NextMath]_vars

\* the rewrite of a node by the running script
Rewritten(e) == convert_mathml_to_latex(variant, e)

\* s occurs in t as a contiguous part
IsInfix(s, t) == \E i \in 0..(Len(t) - Len(s)) : SubSeq(t, i + 1, i + Len(s)) = s

\* the parent of the call holds exactly one construct with the given tags
OneConstruct(tags) ==
    /\ pc = "done"
    /\ Len(elem.kids) = 1
    /\ elem.kids[1].tag \in tags

(***************************************************************************)
(* C1: an mfrac node with two children renders as \frac{N}{D}, N and D the *)
(* rewrites of child 0 and child 1; with one child it renders as \frac{N}{}*)
(* and the call never raises; in every converter variant.                  *)
(***************************************************************************)
C1_FracTemplate ==
    OneConstruct({"mfrac"}) =>
        LET f == elem.kids[1]
        IN  /\ exc = "none"
            /\ Len(f.kids) = 2 =>
                   result = <<"\\frac{">> \o Rewritten(f.kids[1]) \o <<"}{">>
                            \o Rewritten(f.kids[2]) \o <<"}">>
            /\ Len(f.kids) = 1 =>
                   result = <<"\\frac{">> \o Rewritten(f.kids[1]) \o <<"}{", "}">>

(***************************************************************************)
(* C2: a childless mi/mn/mo node whose text is one symbol s yields the     *)
(* symbol table's entry for s, or s itself; the string is the same whether *)
(* the leaf is rewritten directly or visited as a child of an mrow/math    *)
(* parent.                                                                 *)
(***************************************************************************)
C2_LeafSameAsChild ==
    (/\ OneConstruct({"mi", "mn", "mo"})
     /\ Len(elem.kids[1].kids) = 0
     /\ Len(strip(elem.kids[1].text)) = 1)
    => result = Rewritten(elem.kids[1])

(***************************************************************************)
(* C8: an msub, msup, msubsup, munder, munderover, mroot or mover node     *)
(* with fewer children than its arity does not raise; the operands that    *)
(* are present are rewritten and never dropped, the missing ones are       *)
(* empty: an msub with only a base b renders b_{}.                         *)
(***************************************************************************)
Arity(tag) == IF tag \in {"msubsup", "munderover"} THEN 3 ELSE 2

C8_MissingOperandEmpty ==
    (/\ OneConstruct({"msub", "msup", "msubsup", "munder", "munderover", "mroot", "mover"})
     /\ Len(elem.kids[1].kids) < Arity(elem.kids[1].tag))
    => LET c == elem.kids[1]
       IN  /\ exc = "none"
           /\ \A i \in 1..Len(c.kids) : IsInfix(Rewritten(c.kids[i]), result)
           /\ (c.tag = "msub" /\ Len(c.kids) = 1) =>
                  result = Rewritten(c.kids[1]) \o <<"_{", "}">>

(***************************************************************************)
(* The escaping functions.                                                 *)
(***************************************************************************)
amp == <<"&", "a", "m", "p", ";">>
lt == <<"&", "l", "t", ";">>
gt == <<"&", "g", "t", ";">>
quot == <<"&", "q", "u", "o", "t", ";">>
apos == <<"&", "a", "p", "o", "s", ";">>

\* xml_escape of convert_ch06_full.py, convert_ch09_full.py and convert_ch11.py
xml_escape(text) ==
    IF text = <<>> THEN text
    ELSE Replace(Replace(Replace(text, <<"&">>, amp), <<"<">>, lt), <<">">>, gt)

\* escape_xml of convert_appendices.py: the entities are first turned back
\* into their characters, then the five characters are escaped, "&" first
unescape_entities(text) ==
    Replace(Replace(Replace(Replace(Replace(text,
        amp, <<"&">>), lt, <<"<">>), gt, <<">">>), quot, <<"\"">>), apos, <<"'">>)

escape_xml(text) ==
    IF text = <<>> THEN <<>>
    ELSE Replace(Replace(Replace(Replace(Replace(unescape_entities(text),
             <<"&">>, amp), <<"<">>, lt), <<">">>, gt), <<"\"">>, quot), <<"'">>, apos)

EscapeVariants == {"ch06_full", "ch09_full", "ch11", "appendices"}

\* the escaping function of a script
escape(v, text) == IF v = "appendices" THEN escape_xml(text) ELSE xml_escape(text)

\* the largest number of characters and entities in a text to escape
MaxEscapeItems == 3

EscapeItems == { <<"&">>, <<"<">>, <<">">>, amp, lt, gt }

EscapeTexts == { Flatten(items) : items \in SeqsUpTo(EscapeItems, MaxEscapeItems) }

InitEscape ==
    /\ variant \in EscapeVariants
    /\ elem \in EscapeTexts
    /\ result = <<>>
    /\ exc = "none"
    /\ pc = "ready"

\* the source text is escaped
EscapeText ==
    /\ pc = "ready"
    /\ result' = escape(variant, elem)
    /\ pc' = "escaped"
    /\ UNCHANGED <<variant, elem, exc>>

\* text that is already escaped is handed to the escaping function again
EscapeAgain ==
    /\ pc = "escaped"
    /\ result' = escape(variant, result)
    /\ pc' = "again"
    /\ UNCHANGED <<variant, elem, exc>>

NextEscape == EscapeText \/ EscapeAgain

SpecEscape == InitEscape /\ [][NextEscape]_vars

(***************************************************************************)
(* C7: the escaping function never double-escapes: escaping a text that is *)
(* already escaped returns it unchanged, escape(escape(t)) = escape(t),    *)
(* for escape_xml and for xml_escape in every converter variant.           *)
(***************************************************************************)
C7_NoDoubleEscape == pc = "again" => result = escape(variant, elem)

(***************************************************************************)
(* ElementTree searches and Python built-ins used by the Inline Renderers   *)
(* and the Structural Converters.                                           *)
(*                                                                         *)
(* An attribute value is a string like any other.  A value the sources only *)
(* compare with their own literals (effect, display, list-type, class       *)
(* words) is written as one element per word (<<"italics">>); a value they  *)
(* look into (width, count) is written character by character.  An image's  *)
(* src is a sequence of directory prefixes ending in "/" ("../../media/")   *)
(* followed by the characters of the file name.                             *)
(***************************************************************************)

\* The value Python calls None, where a search finds no element.
None == Node("none", "None", NoAttrib, <<>>, <<>>, <<>>)

\* A CNXML element.
E(tag, attrib, text, kids, tail) == Node("c", tag, attrib, text, kids, tail)

\* elem.iter() without elem itself: the descendants in document order.
RECURSIVE Descendants(_)
Descendants(e) ==
    Flatten([i \in 1..Len(e.kids) |-> <<e.kids[i]>> \o Descendants(e.kids[i])])

IsTag(e, ns, tag) == e.ns = ns /\ e.tag = tag

\* elem.findall('.//{ns}tag')
FindAll(e, ns, tag) == SelectSeq(Descendants(e), LAMBDA d : IsTag(d, ns, tag))

\* elem.find('.//{ns}tag')
Find(e, ns, tag) == LET all == FindAll(e, ns, tag) IN IF all = <<>> THEN None ELSE all[1]

\* elem.findall('./tag', namespaces), elem.findall('{ns}tag')
FindAllChildren(e, ns, tag) == SelectSeq(e.kids, LAMBDA d : IsTag(d, ns, tag))

\* elem.find('./tag', namespaces), elem.find('{ns}tag')
FindChild(e, ns, tag) ==
    LET all == FindAllChildren(e, ns, tag) IN IF all = <<>> THEN None ELSE all[1]

\* ''.join(elem.itertext())
RECURSIVE itertext(_)
itertext(e) ==
    e.text \o Flatten([i \in 1..Len(e.kids) |-> itertext(e.kids[i]) \o e.kids[i].tail])

\* The characters outside ASCII that the inputs and the tables use.
CodePoints ==
    {"U+00AC", "U+00AF", "U+00B0", "U+00B1", "U+00B2", "U+00B7", "U+00D7",
     "U+00F7", "U+0394", "U+03A3", "U+03A9", "U+03B1", "U+03B2", "U+03B3",
     "U+03B4", "U+03B5", "U+03B8", "U+03BB", "U+03BC", "U+03C0", "U+03C1",
     "U+03C3", "U+03C7", "U+03C9", "U+0663", "U+2013", "U+2026", "U+2190",
     "U+2192", "U+2194", "U+21D0", "U+21D2", "U+21D4", "U+2200", "U+2202",
     "U+2203", "U+2205", "U+2206", "U+2207", "U+2208", "U+2209", "U+220F",
     "U+2211", "U+2212", "U+2213", "U+2218", "U+221A", "U+221D", "U+221E",
     "U+2227", "U+2228", "U+2229", "U+222A", "U+222B", "U+223C", "U+2248",
     "U+2260", "U+2264", "U+2265", "U+2282", "U+2283", "U+2286", "U+2287",
     "U+2295", "U+2297"}

\* len(s): an element that is not a character counts as many characters as
\* the literal it stands for.
RECURSIVE PyLen(_)
PyLen(s) ==
    IF s = <<>> THEN 0
    ELSE (IF Head(s) \in CodePoints THEN 1 ELSE Len(Head(s))) + PyLen(Tail(s))

\* s * n
RECURSIVE Repeat(_, _)
Repeat(s, n) == IF n <= 0 THEN <<>> ELSE s \o Repeat(s, n - 1)

\* The decimal digits int() accepts: the ASCII digits and the other characters
\* of Unicode category Nd (here ARABIC-INDIC DIGIT THREE).
DecimalValue ==
    ("0" :> 0) @@ ("1" :> 1) @@ ("2" :> 2) @@ ("3" :> 3) @@ ("4" :> 4) @@ ("5" :> 5)
    @@ ("6" :> 6) @@ ("7" :> 7) @@ ("8" :> 8) @@ ("9" :> 9) @@ ("U+0663" :> 3)

\* The characters str.isdigit() accepts: the decimal digits and the characters
\* with a digit value that are not decimal (here SUPERSCRIPT TWO).
IsDigitChars == DOMAIN DecimalValue \cup {"U+00B2"}

\* width.isdigit()
isdigit(s) == s # <<>> /\ \A i \in 1..Len(s) : s[i] \in IsDigitChars

\* The element that stands for a ValueError travelling up the call stack: every
\* caller concatenates what its callee returned, so the element reaches the
\* result of the outermost call.
ValueError == "<ValueError>"

Raised(s) == \E i \in 1..Len(s) : s[i] = ValueError

RECURSIVE DigitsValue(_)
DigitsValue(s) ==
    IF s = <<>> THEN 0 ELSE 10 * DigitsValue(SubSeq(s, 1, Len(s) - 1)) + DecimalValue[s[Len(s)]]

\* int(s): surrounding whitespace is dropped, one sign is allowed, single
\* underscores may group the digits; anything else raises ValueError.
py_int(s) ==
    LET t == strip(s)
        signed == t # <<>> /\ Head(t) \in {"+", "-"}
        body == IF signed THEN Tail(t) ELSE t
        digits == SelectSeq(body, LAMBDA c : c # "_")
        ok == /\ body # <<>>
              /\ \A i \in 1..Len(body) : body[i] \in DOMAIN DecimalValue \cup {"_"}
              /\ body[1] # "_" /\ body[Len(body)] # "_"
              /\ \A i \in 1..(Len(body) - 1) : ~(body[i] = "_" /\ body[i + 1] = "_")
    IN  [ok |-> ok,
         val |-> IF ~ok THEN 0
                 ELSE IF signed /\ Head(t) = "-" THEN 0 - DigitsValue(digits)
                 ELSE DigitsValue(digits)]

\* str(n) for n >= 0
RECURSIVE py_str(_)
py_str(n) ==
    LET d == <<"0", "1", "2", "3", "4", "5", "6", "7", "8", "9">>[(n % 10) + 1]
    IN  IF n < 10 THEN <<d>> ELSE py_str(n \div 10) \o <<d>>

(***************************************************************************)
(* The Inline Renderer of convert_ch06_full.py, convert_ch09_full.py and    *)
(* convert_ch11.py: extract_text (the three copies are the same text; each  *)
(* calls the Math Rewriter of its own script).                              *)
(***************************************************************************)
variable_names == {"X", "Y", "Z", "P", "Q", "x", "y", "z", "p", "q", "k", "n"}

\* The functions of the chapter scripts that call each other.  In the model
\* each of these calls goes through the one recursive operator
\* chapters(f, v, e, indent): f names the function called and v the script it
\* belongs to.  The function's text is the definition whose name ends in
\* _body.
RECURSIVE chapters(_, _, _, _)

extract_text(v, e) == chapters("extract_text", v, e, <<>>)

process_element(v, e, indent) == chapters("process_element", v, e, indent)

process_table_ch09(table_elem, indent) ==
    chapters("process_table", "ch09_full", table_elem, indent)

process_para(v, para, indent) == chapters("process_para", v, para, indent)

process_list(v, list_elem, indent) ==
    chapters("process_list", v, list_elem, indent)

process_equation(v, eq, indent) == chapters("process_equation", v, eq, indent)

process_figure(v, fig, indent) == chapters("process_figure", v, fig, indent)

process_example_full(v, ex, indent) ==
    chapters("process_example", v, ex, indent)

process_example_ch11(ex, indent) ==
    chapters("process_example", "ch11", ex, indent)

process_note_ch06_full(note, indent) ==
    chapters("process_note", "ch06_full", note, indent)

process_note_ch09(note, indent) ==
    chapters("process_note", "ch09_full", note, indent)

process_note_ch11(note, indent) ==
    chapters("process_note", "ch11", note, indent)

process_exercise(v, ex, indent) == chapters("process_exercise", v, ex, indent)

extract_child(v, child) ==
    LET content == extract_text(v, child)
        tag == child.tag
    IN  IF tag = "math"
        THEN <<"<m>">> \o convert_mathml_to_latex(v, child) \o <<"</m>">>
        ELSE IF tag = "emphasis"
        THEN LET effect == Attr(child, "effect", <<>>)
             IN  IF effect = <<"italics">>
                 THEN IF \/ PyLen(strip(content)) <= 2
                         \/ strip(content) \in {<<c>> : c \in variable_names}
                      THEN <<"<m>">> \o content \o <<"</m>">>
                      ELSE <<"<em>">> \o content \o <<"</em>">>
                 ELSE IF effect = <<"bold">>
                 THEN <<"<alert>">> \o content \o <<"</alert>">>
                 ELSE content
        ELSE IF tag = "term" THEN <<"<term>">> \o content \o <<"</term>">>
        ELSE IF tag = "code" THEN <<"<c>">> \o content \o <<"</c>">>
        ELSE IF tag = "sup" THEN <<"^", "{">> \o content \o <<"}">>
        ELSE IF tag = "sub" THEN <<"_", "{">> \o content \o <<"}">>
        ELSE IF tag = "newline"
        THEN LET count == py_int(Attr(child, "count", <<"1">>))
             IN  IF count.ok THEN Repeat(<<"<nbsp/>">>, count.val) ELSE <<ValueError>>
        ELSE IF tag = "link"
        THEN LET url == Attr(child, "url", Attr(child, "document", <<>>))
             IN  IF url # <<>>
                 THEN <<"<url href=\"">> \o url \o <<"\">">> \o content \o <<"</url>">>
                 ELSE content
        ELSE content

extract_text_body(v, e) ==
    IF e = None THEN <<>>
    ELSE xml_escape(e.text)
         \o Flatten([i \in 1..Len(e.kids) |->
                        extract_child(v, e.kids[i]) \o xml_escape(e.kids[i].tail)])

(***************************************************************************)
(* The Inline Renderer of convert_ch06.py: extract_text_with_math.          *)
(***************************************************************************)
variable_names_ch06 == {"X", "Y", "Z", "x", "y", "z", "k", "n", "p", "q"}

RECURSIVE extract_text_with_math(_)

extract_child_with_math(child) ==
    LET content == extract_text_with_math(child)
        \* the tag without the CNXML namespace; a MathML tag keeps the prefix
        \* "m:", so of the MathML elements only m:math has a branch
        tag == IF child.ns = "m" THEN "m:" ELSE child.tag
    IN  IF child.ns = "m"
        THEN IF child.tag = "math"
             THEN <<"<m>">> \o convert_mathml_to_latex("ch06", child) \o <<"</m>">>
             ELSE content
        ELSE IF tag = "emphasis"
        THEN LET effect == Attr(child, "effect", <<>>)
             IN  IF effect = <<"italics">>
                 THEN IF \/ PyLen(strip(content)) = 1
                         \/ strip(content) \in {<<c>> : c \in variable_names_ch06}
                      THEN <<"<m>">> \o content \o <<"</m>">>
                      ELSE <<"<em>">> \o content \o <<"</em>">>
                 ELSE IF effect = <<"bold">>
                 THEN <<"<alert>">> \o content \o <<"</alert>">>
                 ELSE content
        ELSE IF tag = "term" THEN <<"<term>">> \o content \o <<"</term>">>
        ELSE IF tag = "sup" THEN <<"<sup>">> \o content \o <<"</sup>">>
        ELSE IF tag = "sub" THEN <<"<sub>">> \o content \o <<"</sub>">>
        ELSE IF tag = "code" THEN <<"<c>">> \o content \o <<"</c>">>
        ELSE IF tag = "newline"
        THEN LET count == py_int(Attr(child, "count", <<"1">>))
             IN  IF count.ok THEN Repeat(<<"\n">>, count.val) ELSE <<ValueError>>
        ELSE content

extract_text_with_math(e) ==
    IF e = None THEN <<>>
    ELSE e.text
         \o Flatten([i \in 1..Len(e.kids) |->
                        extract_child_with_math(e.kids[i]) \o e.kids[i].tail])

(***************************************************************************)
(* convert_appendices.py: the Inline Renderer (process_mixed_content and    *)
(* the process_* functions of the inline elements) and the Structural       *)
(* Converter (process_element_content, process_section, convert_appendix    *)
(* and the block emitters).  A list of lines is a sequence of strings.      *)
(***************************************************************************)

\* ' ' * indent
Spaces(n) == Repeat(<<" ">>, n)

\* id(elem): an integer that differs from run to run; one element stands for
\* its digits.
ObjectId == <<"id(elem)">>

\* The directory prefixes an image's src is made of.
PathPrefixes == {"../../media/", "../media/", "media/"}

\* src.split('/')[-1]: what follows the last directory prefix.
RECURSIVE LastSegment(_)
LastSegment(src) ==
    IF \E i \in 1..Len(src) : src[i] \in PathPrefixes
    THEN LastSegment(Tail(src))
    ELSE src

\* The functions of convert_appendices.py that call each other.  In the model
\* each of these calls goes through the one recursive operator
\* appendices(f, e, indent, x): f names the function called, x is its last
\* argument (inline, skip_tags or depth).  The function's text is the
\* definition whose name ends in _body.
RECURSIVE appendices(_, _, _, _)

process_mixed_content(e, inline) == appendices("process_mixed_content", e, 0, inline)

process_list_appendices(e, indent) == appendices("process_list", e, indent, {})

process_figure_appendices(e, indent) == appendices("process_figure", e, indent, {})

process_element_content(e, indent, skip_tags) ==
    appendices("process_element_content", e, indent, skip_tags)

process_section(e, indent, depth) == appendices("process_section", e, indent, depth)

appendix_text(content) == appendices("convert_appendix", content, 0, {})

process_math(e) ==
    LET display == Attr(e, "display", <<"inline">>)
        math_elem == Find(e, "m", "math")
    IN  IF math_elem # None
        THEN LET latex == convert_mathml_to_latex("appendices", math_elem)
             IN  IF display = <<"block">>
                 THEN <<"<me>">> \o latex \o <<"</me>">>
                 ELSE <<"<m>">> \o latex \o <<"</m>">>
        ELSE <<>>

process_emphasis(e) ==
    LET effect == Attr(e, "effect", <<"italics">>)
        text == process_mixed_content(e, TRUE)
    IN  IF effect \in {<<"bold">>, <<"strong">>}
        THEN <<"<term>">> \o text \o <<"</term>">>
        ELSE <<"<em>">> \o text \o <<"</em>">>

process_link(e) ==
    LET url == Attr(e, "url", <<>>)
        document == Attr(e, "document", <<>>)
        target_id == Attr(e, "target-id", <<>>)
        text == process_mixed_content(e, TRUE)
    IN  IF url # <<>>
        THEN <<"<url href=\"">> \o url \o <<"\">">> \o text \o <<"</url>">>
        ELSE IF document # <<>>
        THEN IF target_id # <<>>
             THEN <<"<xref ref=\"">> \o document \o <<"-">> \o target_id \o <<"\">">>
                  \o text \o <<"</xref>">>
             ELSE <<"<xref ref=\"">> \o document \o <<"\">">> \o text \o <<"</xref>">>
        ELSE IF target_id # <<>>
        THEN <<"<xref ref=\"">> \o target_id \o <<"\">">> \o text \o <<"</xref>">>
        ELSE text

process_sub(e) == <<"<m>", "_", "{">> \o process_mixed_content(e, TRUE) \o <<"}", "</m>">>

process_sup(e) == <<"<m>", "^", "{">> \o process_mixed_content(e, TRUE) \o <<"}", "</m>">>

process_code(e) == <<"<c>">> \o process_mixed_content(e, TRUE) \o <<"</c>">>

process_term(e) == <<"<term>">> \o process_mixed_content(e, TRUE) \o <<"</term>">>

process_quote(e) == <<"<q>">> \o process_mixed_content(e, TRUE) \o <<"</q>">>

process_foreign(e) == <<"<foreign>">> \o process_mixed_content(e, TRUE) \o <<"</foreign>">>

process_image(e) ==
    LET src == Attr(e, "src", <<>>)
        width == Attr(e, "width", <<>>)
        filename == LastSegment(src)
        attr_str == IF width = <<>> THEN <<>>
                    ELSE IF \A i \in 1..Len(width) : width[i] # "%"
                    THEN <<"width=\"">> \o width \o <<"%", "\"">>
                    ELSE <<"width=\"">> \o width \o <<"\"">>
    IN  IF attr_str # <<>>
        THEN <<"<image source=\"../media/">> \o filename \o <<"\"", " ">> \o attr_str \o <<"/>">>
        ELSE <<"<image source=\"../media/">> \o filename \o <<"\"", "/>">>

process_media(e) ==
    LET image_elem == FindChild(e, "c", "image")
    IN  IF image_elem # None THEN process_image(image_elem) ELSE <<>>

process_figure_appendices_body(e, indent) ==
    LET indent_str == Spaces(indent)
        figure_id == Attr(e, "id", <<"figure-">> \o ObjectId)
        caption_elem == FindChild(e, "c", "caption")
        caption_text == IF caption_elem # None
                        THEN process_mixed_content(caption_elem, TRUE) ELSE <<>>
        title_elem == FindChild(e, "c", "title")
        title_text == IF title_elem # None THEN escape_xml(title_elem.text) ELSE <<>>
        media_elem == FindChild(e, "c", "media")
        image_markup == IF media_elem # None THEN process_media(media_elem) ELSE <<>>
        subfigures == FindAllChildren(e, "c", "subfigure")
        lines ==
            << indent_str \o <<"<figure xml:id=\"">> \o figure_id \o <<"\">">> >>
            \o (IF caption_text # <<>> \/ title_text # <<>>
                THEN << indent_str \o <<" ", " ", "<caption>">>
                        \o (IF caption_text # <<>> THEN caption_text ELSE title_text)
                        \o <<"</caption>">> >>
                ELSE <<>>)
            \o (IF image_markup # <<>>
                THEN << indent_str \o <<" ", " ">> \o image_markup >> ELSE <<>>)
            \o [i \in 1..Len(subfigures) |-> process_figure_appendices(subfigures[i], indent + 2)]
            \o << indent_str \o <<"</figure>">> >>
    IN  Join(<<"\n">>, lines)

marker_map ==
    (<<"upper-alpha">> :> <<"A">>) @@ (<<"lower-alpha">> :> <<"a">>)
    @@ (<<"upper-roman">> :> <<"I">>) @@ (<<"lower-roman">> :> <<"i">>)
    @@ (<<"arabic">> :> <<"1">>)

process_list_appendices_body(e, indent) ==
    LET list_type == Attr(e, "list-type", <<"bulleted">>)
        number_style == Attr(e, "number-style", <<"arabic">>)
        indent_str == Spaces(indent)
        title_elem == FindChild(e, "c", "title")
        title == IF title_elem # None THEN escape_xml(title_elem.text) ELSE <<>>
        marker == DictGet(marker_map, number_style, <<"1">>)
        items == FindAllChildren(e, "c", "item")
        item_lines(item) ==
            LET item_content == process_element_content(item, indent + 4, {"title"})
            IN  << indent_str \o <<" ", " ", "<li>">> >>
                \o (IF strip(item_content) # <<>> THEN <<item_content>> ELSE <<>>)
                \o << indent_str \o <<" ", " ", "</li>">> >>
        lines ==
            (IF title # <<>>
             THEN << indent_str \o <<"<p>", "<title>">> \o title \o <<"</title>", "</p>">> >>
             ELSE <<>>)
            \o (IF list_type = <<"bulleted">> THEN << indent_str \o <<"<ul>">> >>
                ELSE IF marker # <<"1">>
                THEN << indent_str \o <<"<ol marker=\"">> \o marker \o <<"\">">> >>
                ELSE << indent_str \o <<"<ol>">> >>)
            \o Flatten([i \in 1..Len(items) |-> item_lines(items[i])])
            \o (IF list_type = <<"bulleted">> THEN << indent_str \o <<"</ul>">> >>
                ELSE << indent_str \o <<"</ol>">> >>)
    IN  Join(<<"\n">>, lines)

mixed_child(child, inline) ==
    LET tag == child.tag
    IN  IF tag = "emphasis" THEN <<process_emphasis(child)>>
        ELSE IF tag = "link" THEN <<process_link(child)>>
        ELSE IF tag = "math" THEN <<process_math(child)>>
        ELSE IF tag = "sub" THEN <<process_sub(child)>>
        ELSE IF tag = "sup" THEN <<process_sup(child)>>
        ELSE IF tag = "code" THEN <<process_code(child)>>
        ELSE IF tag = "term" THEN <<process_term(child)>>
        ELSE IF tag = "quote" THEN <<process_quote(child)>>
        ELSE IF tag = "foreign" THEN <<process_foreign(child)>>
        ELSE IF tag = "newline" THEN (IF inline THEN << <<"\n">> >> ELSE << <<"<br/>">> >>)
        ELSE IF tag = "space" THEN << <<" ">> >>
        ELSE IF tag = "list"
        THEN IF inline THEN << <<"\n">> \o process_list_appendices(child, 0) >>
             ELSE <<process_list_appendices(child, 0)>>
        ELSE IF tag = "media" THEN <<process_media(child)>>
        ELSE IF tag = "image" THEN <<process_image(child)>>
        ELSE LET text == strip(itertext(child))
             IN  IF text # <<>> THEN <<escape_xml(text)>> ELSE <<>>

\* The list "result" of process_mixed_content: one entry per appended string.
mixed_parts(e, inline) ==
    LET trimmed(s) == IF inline THEN strip(s) ELSE s
        text_part(s) == IF trimmed(s) # <<>> THEN <<escape_xml(trimmed(s))>> ELSE <<>>
    IN  text_part(e.text)
        \o Flatten([i \in 1..Len(e.kids) |->
                       mixed_child(e.kids[i], inline) \o text_part(e.kids[i].tail)])

process_mixed_content_body(e, inline) ==
    Join(IF inline THEN <<" ">> ELSE <<>>, mixed_parts(e, inline))

\* The lines of one row group of process_table (thead with header="yes").
table_rows_appendices(group, indent_str, open_row) ==
    LET rows == FindAllChildren(group, "c", "row")
        row_lines(row) ==
            LET entries == FindAllChildren(row, "c", "entry")
            IN  << indent_str \o <<" ", " ", " ", " ">> \o open_row >>
                \o [j \in 1..Len(entries) |->
                       indent_str \o <<" ", " ", " ", " ", " ", " ", "<cell>">>
                       \o process_mixed_content(entries[j], TRUE) \o <<"</cell>">>]
                \o << indent_str \o <<" ", " ", " ", " ", "</row>">> >>
    IN  IF group = None THEN <<>>
        ELSE Flatten([i \in 1..Len(rows) |-> row_lines(rows[i])])

process_table_appendices(e, indent) ==
    LET indent_str == Spaces(indent)
        title_elem == FindChild(e, "c", "title")
        title == IF title_elem # None THEN process_mixed_content(title_elem, TRUE) ELSE <<>>
        caption_elem == FindChild(e, "c", "caption")
        caption == IF caption_elem # None
                   THEN process_mixed_content(caption_elem, TRUE) ELSE <<>>
        tgroup == FindChild(e, "c", "tgroup")
        table_id == Attr(e, "id", <<"table-">> \o ObjectId)
        lines ==
            << indent_str \o <<"<table xml:id=\"">> \o table_id \o <<"\">">> >>
            \o (IF title # <<>>
                THEN << indent_str \o <<" ", " ", "<title>">> \o title \o <<"</title>">> >>
                ELSE IF caption # <<>>
                THEN << indent_str \o <<" ", " ", "<title>">> \o caption \o <<"</title>">> >>
                ELSE <<>>)
            \o << indent_str \o <<" ", " ", "<tabular>">> >>
            \o table_rows_appendices(FindChild(tgroup, "c", "thead"), indent_str,
                                     <<"<row header=\"yes\">">>)
            \o table_rows_appendices(FindChild(tgroup, "c", "tbody"), indent_str, <<"<row>">>)
            \o << indent_str \o <<" ", " ", "</tabular>">> >>
            \o << indent_str \o <<"</table>">> >>
    IN  IF tgroup = None THEN <<>> ELSE Join(<<"\n">>, lines)

process_note_appendices(e, indent) ==
    LET indent_str == Spaces(indent)
        note_id == Attr(e, "id", <<"note-">> \o ObjectId)
        title_elem == FindChild(e, "c", "title")
        title == IF title_elem # None THEN escape_xml(title_elem.text) ELSE <<>>
        label_elem == FindChild(e, "c", "label")
        label == IF label_elem # None THEN escape_xml(label_elem.text) ELSE <<>>
        content_lines == process_element_content(e, indent + 2, {"title", "label"})
        lines ==
            << indent_str \o <<"<note xml:id=\"">> \o note_id \o <<"\">">> >>
            \o (IF title # <<>>
                THEN << indent_str \o <<" ", " ", "<title>">> \o title \o <<"</title>">> >>
                ELSE IF label # <<>>
                THEN << indent_str \o <<" ", " ", "<title>">> \o label \o <<"</title>">> >>
                ELSE <<>>)
            \o (IF strip(content_lines) # <<>> THEN <<content_lines>> ELSE <<>>)
            \o << indent_str \o <<"</note>">> >>
    IN  Join(<<"\n">>, lines)

process_exercise_appendices(e, indent) ==
    LET indent_str == Spaces(indent)
        exercise_id == Attr(e, "id", <<"exercise-">> \o ObjectId)
        part(part_elem, open, close) ==
            LET content == process_element_content(part_elem, indent + 4, {})
            IN  IF part_elem = None THEN <<>>
                ELSE << indent_str \o <<" ", " ", open>> >>
                     \o (IF strip(content) # <<>> THEN <<content>> ELSE <<>>)
                     \o << indent_str \o <<" ", " ", close>> >>
        lines ==
            << indent_str \o <<"<exercise xml:id=\"">> \o exercise_id \o <<"\">">> >>
            \o part(FindChild(e, "c", "problem"), "<statement>", "</statement>")
            \o part(FindChild(e, "c", "solution"), "<solution>", "</solution>")
            \o << indent_str \o <<"</exercise>">> >>
    IN  Join(<<"\n">>, lines)

inline_tags ==
    {"link", "emphasis", "math", "sub", "sup", "code", "term", "quote", "foreign",
     "newline", "space", "media", "image"}

\* The lines of a paragraph: "<p>", the content two columns in, "</p>".
p_lines(indent_str, content) ==
    << indent_str \o <<"<p>">>, indent_str \o <<" ", " ">> \o content, indent_str \o <<"</p>">> >>

\* The lines process_element_content and process_section emit for a para
\* child: nothing when its inline content is blank; when it has a title child,
\* the title and what follows the title; otherwise the inline content.
para_lines(child, indent_str) ==
    LET para_content == process_mixed_content(child, TRUE)
        title_elem == FindChild(child, "c", "title")
        index == CHOOSE i \in 1..Len(child.kids) : child.kids[i] = title_elem
                     /\ \A j \in 1..(i - 1) : ~IsTag(child.kids[j], "c", "title")
        remaining ==
            (IF title_elem.tail # <<>> THEN <<escape_xml(strip(title_elem.tail))>> ELSE <<>>)
            \o [k \in 1..(Len(child.kids) - index) |->
                   process_mixed_content(child.kids[index + k], TRUE)]
    IN  IF strip(para_content) = <<>> THEN <<>>
        ELSE IF title_elem # None
        THEN << indent_str \o <<"<p>">>,
                indent_str \o <<" ", " ", "<title>">> \o escape_xml(title_elem.text)
                \o <<"</title>">> >>
             \o (IF remaining # <<>>
                 THEN << indent_str \o <<" ", " ">> \o Join(<<" ">>, remaining) >> ELSE <<>>)
             \o << indent_str \o <<"</p>">> >>
        ELSE p_lines(indent_str, para_content)

\* The lines of a <pre> block of process_element_content.
pre_lines(child, indent_str) ==
    << indent_str \o <<"<pre>">>, escape_xml(itertext(child)), indent_str \o <<"</pre>">> >>

equation_lines(child, indent_str) ==
    LET math_elem == Find(child, "m", "math")
    IN  IF math_elem # None
        THEN << indent_str \o <<"<me>">> \o convert_mathml_to_latex("appendices", math_elem)
                \o <<"</me>">> >>
        ELSE <<>>

media_lines(child, indent_str) ==
    LET media_markup == process_media(child)
    IN  IF media_markup # <<>> THEN p_lines(indent_str, media_markup) ELSE <<>>

process_element_content_body(e, indent, skip_tags) ==
    LET indent_str == Spaces(indent)
        has_direct_text == strip(e.text) # <<>>
        children == SelectSeq(e.kids, LAMBDA c : c.tag \notin skip_tags)
        is_all_inline == \A i \in 1..Len(children) : children[i].tag \in inline_tags
        direct_text_lines == p_lines(indent_str, escape_xml(strip(e.text)))
        child_lines(child) ==
            LET tag == child.tag
            IN  (IF tag \in skip_tags THEN <<>>
                 ELSE IF tag = "para" THEN para_lines(child, indent_str)
                 ELSE IF tag = "section" THEN <<process_section(child, indent, 0)>>
                 ELSE IF tag = "list" THEN <<process_list_appendices(child, indent)>>
                 ELSE IF tag = "table" THEN <<process_table_appendices(child, indent)>>
                 ELSE IF tag = "figure" THEN <<process_figure_appendices(child, indent)>>
                 ELSE IF tag = "note" THEN <<process_note_appendices(child, indent)>>
                 ELSE IF tag = "exercise" THEN <<process_exercise_appendices(child, indent)>>
                 ELSE IF tag = "media" THEN media_lines(child, indent_str)
                 ELSE IF tag = "equation" THEN equation_lines(child, indent_str)
                 ELSE IF tag = "code" /\ Attr(child, "display", <<>>) = <<"block">>
                 THEN pre_lines(child, indent_str)
                 ELSE IF tag = "preformat" THEN pre_lines(child, indent_str)
                 ELSE <<>>)
                \o (IF tag \notin skip_tags /\ strip(child.tail) # <<>>
                    THEN p_lines(indent_str, escape_xml(strip(child.tail))) ELSE <<>>)
        lines ==
            IF (has_direct_text \/ is_all_inline) /\ Len(children) > 0
            THEN LET para_content == process_mixed_content(e, TRUE)
                 IN  IF strip(para_content) # <<>>
                     THEN p_lines(indent_str, para_content) ELSE <<>>
            ELSE IF has_direct_text /\ Len(children) = 0
            THEN direct_text_lines
            ELSE (IF has_direct_text THEN direct_text_lines ELSE <<>>)
                 \o Flatten([i \in 1..Len(e.kids) |-> child_lines(e.kids[i])])
    IN  Join(<<"\n">>, lines)

process_section_body(e, indent, depth) ==
    LET indent_str == Spaces(indent)
        inner == indent_str \o <<" ", " ">>
        section_id == Attr(e, "id", <<"section-">> \o ObjectId)
        title_elem == FindChild(e, "c", "title")
        title == IF title_elem # None THEN escape_xml(title_elem.text) ELSE <<>>
        child_lines(child) ==
            LET tag == child.tag
            IN  IF tag = "title" THEN <<>>
                ELSE IF tag = "section" THEN <<process_section(child, indent + 2, depth + 1)>>
                ELSE IF tag = "para" THEN para_lines(child, inner)
                ELSE IF tag = "list" THEN <<process_list_appendices(child, indent + 2)>>
                ELSE IF tag = "table" THEN <<process_table_appendices(child, indent + 2)>>
                ELSE IF tag = "figure" THEN <<process_figure_appendices(child, indent + 2)>>
                ELSE IF tag = "note" THEN <<process_note_appendices(child, indent + 2)>>
                ELSE IF tag = "exercise" THEN <<process_exercise_appendices(child, indent + 2)>>
                ELSE IF tag = "media" THEN media_lines(child, inner)
                ELSE IF tag = "equation" THEN equation_lines(child, inner)
                ELSE IF (tag = "code" /\ Attr(child, "display", <<>>) = <<"block">>)
                        \/ tag = "preformat"
                THEN << inner \o <<"<pre>">>,
                        inner \o <<" ", " ">> \o escape_xml(itertext(child)),
                        inner \o <<"</pre>">> >>
                ELSE <<>>
        lines ==
            << indent_str
               \o (IF depth = 0 THEN <<"<section xml:id=\"">> ELSE <<"<subsection xml:id=\"">>)
               \o section_id \o <<"\">">> >>
            \o (IF title # <<>>
                THEN << inner \o <<"<title>">> \o title \o <<"</title>">> >> ELSE <<>>)
            \o Flatten([i \in 1..Len(e.kids) |-> child_lines(e.kids[i])])
            \o << indent_str \o (IF depth = 0 THEN <<"</section>">> ELSE <<"</subsection>">>) >>
    IN  Join(<<"\n">>, lines)

\* APPENDICES[module_id] of the appendix being converted: its letter, title
\* and xml:id.
APPENDICES == [letter |-> <<"A">>, title |-> <<"Review Exercises (Ch 3-13)">>,
               xml_id |-> <<"appendix-a-review-exercises">>]

\* The text convert_appendix hands to write_text for a document that has a
\* content element.
appendix_text_body(content) ==
    LET blank == << <<>> >>
        child_lines(child) ==
            LET tag == child.tag
            IN  IF tag = "para"
                THEN LET para_content == process_mixed_content(child, TRUE)
                     IN  IF strip(para_content) # <<>>
                         THEN p_lines(<<" ", " ">>, para_content) \o blank ELSE <<>>
                ELSE IF tag = "section" THEN <<process_section(child, 2, 0)>> \o blank
                ELSE IF tag = "table" THEN <<process_table_appendices(child, 2)>> \o blank
                ELSE IF tag = "list" THEN <<process_list_appendices(child, 2)>> \o blank
                ELSE IF tag = "note" THEN <<process_note_appendices(child, 2)>> \o blank
                ELSE IF tag = "exercise" THEN <<process_exercise_appendices(child, 2)>> \o blank
                ELSE IF tag = "figure" THEN <<process_figure_appendices(child, 2)>> \o blank
                ELSE IF tag = "media"
                THEN LET lines == media_lines(child, <<" ", " ">>)
                     IN  IF lines # <<>> THEN lines \o blank ELSE <<>>
                ELSE IF tag = "equation"
                THEN LET lines == equation_lines(child, <<" ", " ">>)
                     IN  IF lines # <<>> THEN lines \o blank ELSE <<>>
                ELSE <<>>
        lines ==
            << <<"<?xml version=\"1.0\" encoding=\"UTF-8\"?>">>,
               <<"<!-- Appendix ">> \o APPENDICES.letter \o <<": ">> \o APPENDICES.title
               \o <<" -->">>,
               <<"<appendix xml:id=\"">> \o APPENDICES.xml_id
               \o <<"\" xmlns:xi=\"http://www.w3.org/2001/XInclude\">">>,
               <<" ", " ", "<title>">> \o APPENDICES.title \o <<"</title>">>,
               <<>> >>
            \o Flatten([i \in 1..Len(content.kids) |-> child_lines(content.kids[i])])
            \o << <<"</appendix>">> >>
    IN  Join(<<"\n">>, lines)

appendices(f, e, indent, x) ==
    IF f = "process_mixed_content" THEN process_mixed_content_body(e, x)
    ELSE IF f = "process_list" THEN process_list_appendices_body(e, indent)
    ELSE IF f = "process_figure" THEN process_figure_appendices_body(e, indent)
    ELSE IF f = "process_element_content" THEN process_element_content_body(e, indent, x)
    ELSE IF f = "process_section" THEN process_section_body(e, indent, x)
    ELSE appendix_text_body(e)

\* convert_appendix for a source file that exists and parses to root: what it
\* returns ("None" or "output_path") and what it writes to the output file
\* (written is FALSE when write_text is not reached).
convert_appendix(root) ==
    LET content == Find(root, "c", "content")
    IN  IF content = None
        THEN [returned |-> "None", written |-> FALSE, text |-> <<>>]
        ELSE [returned |-> "output_path", written |-> TRUE, text |-> appendix_text(content)]

(***************************************************************************)
(* The Structural Converters of convert_ch06_full.py, convert_ch09_full.py  *)
(* and convert_ch11.py.  v names the script; indent is the string of        *)
(* spaces the caller passes.                                                *)
(***************************************************************************)
ChapterVariants == {"ch06_full", "ch09_full", "ch11"}

\* f'{indent}<name' + (f' xml:id="{id}"' if id) + '>\n'
open_tag(indent, name, id) ==
    indent \o <<name>>
    \o (IF id # <<>> THEN <<" xml:id=\"">> \o id \o <<"\"">> ELSE <<>>)
    \o <<">", "\n">>

\* One f'{indent}<tag>{text}</tag>\n' line.
tag_line(indent, open, text, close) == indent \o <<open>> \o text \o <<close, "\n">>

\* The rows of a thead or tbody of convert_ch09_full.py's process_table.
table_rows_ch09(group, indent) ==
    LET rows == FindAll(group, "c", "row")
        row_line(row) ==
            LET entries == FindAll(row, "c", "entry")
            IN  indent \o <<" ", " ", " ", " ", "<row>">>
                \o Flatten([j \in 1..Len(entries) |->
                               <<"<cell>">> \o strip(extract_text("ch09_full", entries[j]))
                               \o <<"</cell>">>])
                \o <<"</row>", "\n">>
    IN  IF group = None THEN <<>> ELSE Flatten([i \in 1..Len(rows) |-> row_line(rows[i])])

process_table_ch09_body(table_elem, indent) ==
    LET table_id == Attr(table_elem, "id", <<>>)
        caption == Find(table_elem, "c", "caption")
        cap_text == strip(extract_text("ch09_full", caption))
        tgroup == Find(table_elem, "c", "tgroup")
    IN  open_tag(indent, "<table", table_id)
        \o (IF caption # None /\ cap_text # <<>>
            THEN tag_line(indent \o Spaces(2), "<caption>", cap_text, "</caption>") ELSE <<>>)
        \o (IF tgroup # None
            THEN indent \o <<" ", " ", "<tabular>", "\n">>
                 \o table_rows_ch09(Find(tgroup, "c", "thead"), indent)
                 \o table_rows_ch09(Find(tgroup, "c", "tbody"), indent)
                 \o indent \o <<" ", " ", "</tabular>", "\n">>
            ELSE <<>>)
        \o indent \o <<"</table>", "\n">>

\* The position among para's children of the first one that is a table or
\* holds one (0 if there is none): para.find('.//table') returns that child
\* or its first table descendant.
table_index(para) ==
    LET holds(i) == \/ IsTag(para.kids[i], "c", "table")
                    \/ FindAll(para.kids[i], "c", "table") # <<>>
    IN  IF \E i \in 1..Len(para.kids) : holds(i)
        THEN CHOOSE i \in 1..Len(para.kids) : holds(i) /\ \A j \in 1..(i - 1) : ~holds(j)
        ELSE 0

\* process_para's table-splitting branch with the table emitted ahead of the
\* leading paragraph.
process_para_table_first(para, table, indent) ==
    process_table_ch09(table, indent)
    \o (IF strip(para.text) # <<>>
        THEN tag_line(indent, "<p>", strip(para.text), "</p>") ELSE <<>>)
    \o (IF strip(table.tail) # <<>>
        THEN tag_line(indent, "<p>", xml_escape(strip(table.tail)), "</p>") ELSE <<>>)

\* The table-splitting branch of convert_ch09_full.py's process_para.
process_para_table(para, table, indent) ==
    LET at == table_index(para)
        \* "if child == table: break" compares identities: the loop stops at
        \* the table only when the table is itself a child of para
        before == IF IsTag(para.kids[at], "c", "table") THEN at - 1 ELSE Len(para.kids)
        part(child) ==
            LET content == extract_text("ch09_full", child)
                effect == Attr(child, "effect", <<>>)
            IN  (IF child.tag = "emphasis"
                 THEN IF effect = <<"italics">>
                      THEN IF PyLen(strip(content)) <= 2
                           THEN <<"<m>">> \o content \o <<"</m>">>
                           ELSE <<"<em>">> \o content \o <<"</em>">>
                      ELSE IF effect = <<"bold">>
                      THEN <<"<alert>">> \o content \o <<"</alert>">>
                      ELSE content
                 ELSE content)
                \o child.tail
        text_before ==
            strip(para.text \o Flatten([i \in 1..before |-> part(para.kids[i])]))
    IN  (IF text_before # <<>> THEN tag_line(indent, "<p>", text_before, "</p>") ELSE <<>>)
        \o process_table_ch09(table, indent)
        \o (IF strip(table.tail) # <<>>
            THEN tag_line(indent, "<p>", xml_escape(strip(table.tail)), "</p>") ELSE <<>>)

\* process_para without its "if not text: return ''".
process_para_unguarded(v, para, indent) ==
    tag_line(indent, "<p>", strip(extract_text(v, para)), "</p>")

process_para_body(v, para, indent) ==
    LET table == Find(para, "c", "table")
        text == strip(extract_text(v, para))
    IN  IF v = "ch09_full" /\ table # None
        THEN process_para_table(para, table, indent)
        ELSE IF text = <<>> THEN <<>>
        ELSE tag_line(indent, "<p>", text, "</p>")

process_list_body(v, list_elem, indent) ==
    LET list_type == Attr(list_elem, "list-type", <<"bulleted">>)
        tag == IF list_type = <<"enumerated">> THEN "ol" ELSE "ul"
        items == FindAll(list_elem, "c", "item")
    IN  indent \o <<IF tag = "ol" THEN "<ol>" ELSE "<ul>", "\n">>
        \o Flatten([i \in 1..Len(items) |->
                       tag_line(indent \o Spaces(2), "<li>",
                                strip(extract_text(v, items[i])), "</li>")])
        \o indent \o <<IF tag = "ol" THEN "</ol>" ELSE "</ul>", "\n">>

process_equation_body(v, eq, indent) ==
    LET math_elem == Find(eq, "m", "math")
    IN  IF math_elem # None
        THEN tag_line(indent, "<me>", convert_mathml_to_latex(v, math_elem), "</me>")
        ELSE <<>>

process_figure_body(v, fig, indent) ==
    LET fig_id == Attr(fig, "id", <<>>)
        caption == Find(fig, "c", "caption")
        image == Find(fig, "c", "image")
        src == Replace(Attr(image, "src", <<>>), <<"../../media/">>, <<"media/">>)
        width == Attr(image, "width", <<>>)
        pixels == py_int(width)
    IN  open_tag(indent, "<figure", fig_id)
        \o (IF caption # None
            THEN tag_line(indent \o Spaces(2), "<caption>", strip(extract_text(v, caption)),
                          "</caption>")
            ELSE <<>>)
        \o (IF image # None
            THEN indent \o <<" ", " ", "<image source=\"">> \o src \o <<"\"">>
                 \o (IF width = <<>> THEN <<>>
                     ELSE IF isdigit(width)
                     THEN IF pixels.ok
                          THEN <<" width=\"">> \o py_str(pixels.val \div 5) \o <<"%", "\"">>
                          ELSE <<ValueError>>
                     ELSE <<" width=\"">> \o width \o <<"\"">>)
                 \o <<"/>", "\n">>
            ELSE <<>>)
        \o indent \o <<"</figure>", "\n">>

\* f'{indent}  <title>{title.text.strip()}</title>\n' for the first title among
\* the descendants, when it has text (convert_ch11.py does not strip it).
title_line(v, e, indent) ==
    LET title == Find(e, "c", "title")
    IN  IF title # None /\ title.text # <<>>
        THEN tag_line(indent \o Spaces(2), "<title>",
                      IF v = "ch11" THEN title.text ELSE strip(title.text), "</title>")
        ELSE <<>>

\* "for x in e.findall('.//tag'): result += process(x)" for each tag of tags,
\* one tag after the other.
blocks_by_tag(v, e, tags, indent) ==
    LET found(tag) == FindAll(e, "c", tag)
        emit(tag, x) ==
            IF tag = "para" THEN process_para(v, x, indent)
            ELSE IF tag = "list" THEN process_list(v, x, indent)
            ELSE IF tag = "equation" THEN process_equation(v, x, indent)
            ELSE process_figure(v, x, indent)
    IN  Flatten([t \in 1..Len(tags) |->
                    Flatten([i \in 1..Len(found(tags[t])) |-> emit(tags[t], found(tags[t])[i])])])

\* "for child in e: ..." with the para/list/equation/figure branches only.
blocks_of_children(v, e, indent) ==
    LET emit(x) ==
            IF x.tag = "para" THEN process_para(v, x, indent)
            ELSE IF x.tag = "list" THEN process_list(v, x, indent)
            ELSE IF x.tag = "equation" THEN process_equation(v, x, indent)
            ELSE IF x.tag = "figure" THEN process_figure(v, x, indent)
            ELSE <<>>
    IN  Flatten([i \in 1..Len(e.kids) |-> emit(e.kids[i])])

\* process_example of convert_ch06_full.py and convert_ch09_full.py
process_example_full_body(v, ex, indent) ==
    LET problem == Find(ex, "c", "problem")
        solution == Find(ex, "c", "solution")
        all == <<"para", "list", "equation", "figure">>
    IN  open_tag(indent, "<example", Attr(ex, "id", <<>>))
        \o title_line(v, ex, indent)
        \o indent \o <<" ", " ", "<statement>", "\n">>
        \o (IF problem # None
            THEN blocks_by_tag(v, problem, all, indent \o Spaces(4))
            ELSE blocks_of_children(v, ex, indent \o Spaces(4)))
        \o indent \o <<" ", " ", "</statement>", "\n">>
        \o (IF solution # None
            THEN indent \o <<" ", " ", "<solution>", "\n">>
                 \o blocks_by_tag(v, solution, all, indent \o Spaces(4))
                 \o indent \o <<" ", " ", "</solution>", "\n">>
            ELSE <<>>)
        \o indent \o <<"</example>", "\n">>

\* "for elem in e: result += process_element(elem, ...)", leaving out the
\* children whose tag is in skip.
elements_of(v, e, skip, indent) ==
    Flatten([i \in 1..Len(e.kids) |->
                IF e.kids[i].tag \in skip THEN <<>> ELSE process_element(v, e.kids[i], indent)])

process_example_ch11_body(ex, indent) ==
    LET found == Find(ex, "c", "content")
        content == IF found = None THEN ex ELSE found
        problem == Find(ex, "c", "problem")
        solution == Find(ex, "c", "solution")
    IN  open_tag(indent, "<example", Attr(ex, "id", <<>>))
        \o title_line("ch11", ex, indent)
        \o (IF problem # None
            THEN indent \o <<" ", " ", "<statement>", "\n">>
                 \o elements_of("ch11", problem, {}, indent \o Spaces(4))
                 \o indent \o <<" ", " ", "</statement>", "\n">>
            ELSE elements_of("ch11", content, {"title"}, indent \o Spaces(2)))
        \o (IF solution # None
            THEN indent \o <<" ", " ", "<solution>", "\n">>
                 \o elements_of("ch11", solution, {}, indent \o Spaces(4))
                 \o indent \o <<" ", " ", "</solution>", "\n">>
            ELSE <<>>)
        \o indent \o <<"</example>", "\n">>

\* 'word' in note_class
class_has(note_class, word) == IsInfix(word, note_class)

class_try == <<"t", "r", "y">>
class_collab == <<"c", "o", "l", "l", "a", "b">>
class_lab == <<"l", "a", "b">>
class_calculator == <<"c", "a", "l", "c", "u", "l", "a", "t", "o", "r">>
class_statistics_try == <<"s", "t", "a", "t", "i", "s", "t", "i", "c", "s", " ">> \o class_try

process_note_ch06_full_body(note, indent) ==
    LET note_class == Attr(note, "class", <<>>)
        kind == IF class_has(note_class, class_try)
                THEN [open |-> "<exercise", close |-> "</exercise>", title |-> <<"Try It">>]
                ELSE IF class_has(note_class, class_collab)
                THEN [open |-> "<activity", close |-> "</activity>",
                      title |-> <<"Collaborative Activity">>]
                ELSE IF class_has(note_class, class_lab)
                THEN [open |-> "<project", close |-> "</project>", title |-> <<"Lab">>]
                ELSE IF class_has(note_class, class_calculator)
                THEN [open |-> "<aside", close |-> "</aside>", title |-> <<"Calculator">>]
                ELSE [open |-> "<note", close |-> "</note>", title |-> <<>>]
        title_elem == Find(note, "c", "title")
        some == <<"para", "list">>
    IN  open_tag(indent, kind.open, Attr(note, "id", <<>>))
        \o (IF title_elem # None /\ title_elem.text # <<>>
            THEN title_line("ch06_full", note, indent)
            ELSE IF kind.title # <<>>
            THEN tag_line(indent \o Spaces(2), "<title>", kind.title, "</title>")
            ELSE <<>>)
        \o (IF kind.open = "<exercise"
            THEN indent \o <<" ", " ", "<statement>", "\n">>
                 \o blocks_by_tag("ch06_full", note, some, indent \o Spaces(4))
                 \o indent \o <<" ", " ", "</statement>", "\n">>
            ELSE blocks_by_tag("ch06_full", note, some, indent \o Spaces(2)))
        \o indent \o <<kind.close, "\n">>

process_note_ch09_body(note, indent) ==
    LET note_class == Attr(note, "class", <<>>)
        emit(x) == IF x.tag = "para" THEN process_para("ch09_full", x, indent \o Spaces(2))
                   ELSE IF x.tag = "list" THEN process_list("ch09_full", x, indent \o Spaces(2))
                   ELSE <<>>
    IN  IF note_class = class_statistics_try THEN <<>>
        ELSE open_tag(indent, "<note", Attr(note, "id", <<>>))
             \o title_line("ch09_full", note, indent)
             \o Flatten([i \in 1..Len(note.kids) |-> emit(note.kids[i])])
             \o indent \o <<"</note>", "\n">>

process_note_ch11_body(note, indent) ==
    open_tag(indent, "<note", Attr(note, "id", <<>>))
    \o title_line("ch11", note, indent)
    \o elements_of("ch11", note, {"label", "title"}, indent \o Spaces(2))
    \o indent \o <<"</note>", "\n">>

\* process_exercise; the three scripts differ in how they walk the problem
\* and the solution.
process_exercise_body(v, ex, indent) ==
    LET problem == Find(ex, "c", "problem")
        solution == Find(ex, "c", "solution")
        inner == indent \o Spaces(4)
        statement(body) == indent \o <<" ", " ", "<statement>", "\n">> \o body
                           \o indent \o <<" ", " ", "</statement>", "\n">>
    IN  open_tag(indent, "<exercise", Attr(ex, "id", <<>>))
        \o title_line(v, ex, indent)
        \o (IF v = "ch06_full"
            THEN statement(IF problem # None THEN blocks_of_children(v, problem, inner)
                           ELSE <<>>)
            ELSE IF problem = None THEN <<>>
            ELSE IF v = "ch09_full"
            THEN statement(blocks_by_tag(v, problem, <<"para", "list", "equation">>, inner))
            ELSE statement(elements_of(v, problem, {}, inner)))
        \o (IF solution # None
            THEN indent \o <<" ", " ", "<solution>", "\n">>
                 \o (IF v = "ch11" THEN elements_of(v, solution, {}, inner)
                     ELSE blocks_of_children(v, solution, inner))
                 \o indent \o <<" ", " ", "</solution>", "\n">>
            ELSE <<>>)
        \o indent \o <<"</exercise>", "\n">>

process_element_body(v, e, indent) ==
    LET tag == e.tag
        exercises == FindAll(e, "c", "exercise")
    IN  IF tag = "para" THEN process_para(v, e, indent)
        ELSE IF tag = "list" THEN process_list(v, e, indent)
        ELSE IF tag = "equation" THEN process_equation(v, e, indent)
        ELSE IF tag = "table" /\ v = "ch09_full" THEN process_table_ch09(e, indent)
        ELSE IF tag = "figure" THEN process_figure(v, e, indent)
        ELSE IF tag = "example"
        THEN IF v = "ch11" THEN process_example_ch11(e, indent)
             ELSE process_example_full(v, e, indent)
        ELSE IF tag = "note"
        THEN IF v = "ch11" THEN process_note_ch11(e, indent)
             ELSE IF v = "ch06_full" THEN process_note_ch06_full(e, indent)
             ELSE IF Attr(e, "class", <<>>) = class_statistics_try
             THEN Flatten([i \in 1..Len(exercises) |-> process_exercise(v, exercises[i], indent)])
             ELSE process_note_ch09(e, indent)
        ELSE IF tag = "exercise" THEN process_exercise(v, e, indent)
        ELSE <<>>

chapters(f, v, e, indent) ==
    IF f = "extract_text" THEN extract_text_body(v, e)
    ELSE IF f = "process_table" THEN process_table_ch09_body(e, indent)
    ELSE IF f = "process_para" THEN process_para_body(v, e, indent)
    ELSE IF f = "process_list" THEN process_list_body(v, e, indent)
    ELSE IF f = "process_equation" THEN process_equation_body(v, e, indent)
    ELSE IF f = "process_figure" THEN process_figure_body(v, e, indent)
    ELSE IF f = "process_example"
    THEN IF v = "ch11" THEN process_example_ch11_body(e, indent)
         ELSE process_example_full_body(v, e, indent)
    ELSE IF f = "process_note"
    THEN IF v = "ch11" THEN process_note_ch11_body(e, indent)
         ELSE IF v = "ch06_full" THEN process_note_ch06_full_body(e, indent)
         ELSE process_note_ch09_body(e, indent)
    ELSE IF f = "process_exercise" THEN process_exercise_body(v, e, indent)
    ELSE process_element_body(v, e, indent)

\* The arguments main() passes to convert_module for the first module of
\* convert_ch06_full.py.
section_id == <<"sec-standard-normal-distribution">>
section_title == <<"The Standard Normal Distribution">>

\* convert_module returning the section container whether or not the document
\* has a content root.
convert_module_shell(v, root) ==
    <<"\n", " ", " ", "<section xml:id=\"">> \o section_id \o <<"\"", ">", "\n">>
    \o tag_line(Spaces(4), "<title>", section_title, "</title>")
    \o <<"\n", " ", " ", "</section>", "\n">>

\* convert_module for a source file that parses to root.
convert_module(v, root) ==
    LET content == Find(root, "c", "content")
        subsection(child) ==
            LET title_elem == FindChild(child, "c", "title")
                section_title_nested ==
                    IF title_elem # None THEN strip(title_elem.text) ELSE <<>>
            IN  <<"\n">> \o open_tag(Spaces(4), "<subsection", Attr(child, "id", <<>>))
                \o (IF section_title_nested # <<>>
                    THEN tag_line(Spaces(6), "<title>", section_title_nested, "</title>")
                    ELSE <<>>)
                \o elements_of(v, child, {}, Spaces(6))
                \o Spaces(4) \o <<"</subsection>", "\n">>
        section_elem == Find(content, "c", "section")
    IN  IF content = None THEN <<>>
        ELSE IF v = "ch11"
        THEN <<" ", " ", "<section xml:id=\"">> \o section_id \o <<"\"", ">", "\n">>
             \o tag_line(Spaces(4), "<title>", section_title, "</title>") \o <<"\n">>
             \o elements_of(v, IF section_elem # None THEN section_elem ELSE content, {},
                            Spaces(4))
             \o <<" ", " ", "</section>", "\n", "\n">>
        ELSE <<"\n", " ", " ", "<section xml:id=\"">> \o section_id \o <<"\"", ">", "\n">>
             \o tag_line(Spaces(4), "<title>", section_title, "</title>") \o <<"\n">>
             \o Flatten([i \in 1..Len(content.kids) |->
                            IF content.kids[i].tag = "section"
                            THEN subsection(content.kids[i])
                            ELSE process_element(v, content.kids[i], Spaces(4))])
             \o <<"\n", " ", " ", "</section>", "\n">>

(***************************************************************************)
(* The Inline Renderer applied to one mixed-content element.                *)
(***************************************************************************)
InlineVariants == {"ch06", "ch06_full", "ch09_full", "ch11", "appendices"}

\* The Inline Renderer of script v.
render_inline(v, e) ==
    IF v = "appendices" THEN process_mixed_content(e, TRUE)
    ELSE IF v = "ch06" THEN extract_text_with_math(e)
    ELSE extract_text(v, e)

\* The most children an input element has.
MaxInlineKids == 1

Emphasis(effect, text) ==
    E("emphasis", IF effect = <<>> THEN NoAttrib ELSE ("effect" :> effect), text, <<>>, <<>>)

Mu == Node("m", "math", NoAttrib, <<>>, <<M("mi", <<"U+03BC">>, <<>>)>>, <<>>)

InlineElements ==
    {Emphasis(effect, text) :
        effect \in {<<>>, <<"italics">>, <<"bold">>, <<"underline">>},
        text \in {<<"x">>, <<"n">>, <<"a", "b", "c">>}}
    \cup {E("newline", attrib, <<>>, <<>>, <<>>) :
            attrib \in {NoAttrib, "count" :> <<"2">>, "count" :> <<"t", "w", "o">>,
                        "count" :> <<"U+0663">>, "count" :> <<"U+00B2">>}}
    \cup {Mu,
          E("emphasis", "effect" :> <<"italics">>, <<>>, <<Mu>>, <<>>),
          E("term", NoAttrib, <<"t">>, <<>>, <<>>),
          E("sup", NoAttrib, <<"2">>, <<>>, <<>>),
          E("link", "url" :> <<"u">>, <<"l">>, <<>>, <<>>),
          E("span", "class" :> <<"q">>, <<"s">>, <<>>, <<>>)}

InlineTails == {<<>>, <<" ", "&">>}

InlineKids == {[e EXCEPT !.tail = t] : e \in InlineElements, t \in InlineTails}

InlineInputs ==
    {E("para", NoAttrib, text, kids, <<>>) :
        text \in {<<>>, <<" ">>, <<"a">>, <<"<">>},
        kids \in SeqsUpTo(InlineKids, MaxInlineKids)}

InitInline ==
    /\ variant \in InlineVariants
    /\ elem \in InlineInputs
    /\ result = <<>>
    /\ exc = "none"
    /\ pc = "ready"

\* One call of the Inline Renderer; a ValueError raised inside it ends the call.
RenderInline ==
    /\ pc = "ready"
    /\ LET r == render_inline(variant, elem)
       IN  IF Raised(r)
           THEN result' = <<>> /\ exc' = "ValueError"
           ELSE result' = r /\ exc' = "none"
    /\ pc' = "done"
    /\ UNCHANGED <<variant, elem>>

NextInline == RenderInline

SpecInline == InitInline /\ [][NextInline]_vars

(***************************************************************************)
(* process_para applied to one paragraph.                                   *)
(***************************************************************************)

\* The most children an input paragraph has.
MaxParaKids == 2

Entry(text) == E("entry", NoAttrib, text, <<>>, <<>>)

\* A table of one body row with one cell.
Table(tail) ==
    E("table", "id" :> <<"t1">>, <<>>,
      << E("tgroup", "cols" :> <<"1">>, <<>>,
           << E("tbody", NoAttrib, <<>>,
                << E("row", NoAttrib, <<>>, <<Entry(<<"c">>)>>, <<>>) >>, <<>>) >>, <<>>) >>,
      tail)

ParaTexts == {<<>>, <<" ">>, <<"a">>, <<" ", "a", " ">>, <<"&">>}

TableTails == {<<>>, <<" ">>, <<"b">>, <<" ", "<", " ">>}

ParaKids ==
    {Table(tail) : tail \in TableTails}
    \cup {[Emphasis(<<"italics">>, <<"x">>) EXCEPT !.tail = <<" ">>],
          Emphasis(<<"bold">>, <<"x">>),
          E("span", NoAttrib, <<>>, <<Table(<<"b">>)>>, <<"s">>)}

ParaInputs ==
    {E("para", NoAttrib, text, kids, <<>>) :
        text \in ParaTexts, kids \in SeqsUpTo(ParaKids, MaxParaKids)}

InitPara ==
    /\ variant \in ChapterVariants
    /\ elem \in ParaInputs
    /\ result = <<>>
    /\ exc = "none"
    /\ pc = "ready"

\* One call process_para(para, namespaces) with the default indent.
ProcessPara ==
    /\ pc = "ready"
    /\ LET r == process_para(variant, elem, Spaces(4))
       IN  IF Raised(r)
           THEN result' = <<>> /\ exc' = "ValueError"
           ELSE result' = r /\ exc' = "none"
    /\ pc' = "done"
    /\ UNCHANGED <<variant, elem>>

NextPara == ProcessPara

SpecPara == InitPara /\ [][NextPara]_vars

(***************************************************************************)
(* The conversion of one source module: convert_module in the chapter       *)
(* scripts, convert_appendix in convert_appendices.py.                      *)
(***************************************************************************)
ModuleVariants == ChapterVariants \cup {"appendices"}

\* The most direct children the content root of an input document has.
MaxBlocks == 1

Para(text, kids) == E("para", NoAttrib, text, kids, <<>>)

Title(text) == E("title", NoAttrib, text, <<>>, <<>>)

Image(width) ==
    E("image", ("src" :> <<"../../media/", "f">>) @@ ("width" :> width), <<>>, <<>>, <<>>)

\* One section holding one paragraph with a bold emphasis span and an inline
\* math element whose only symbol is mu.
MinimalPara == Para(<<>>, <<Emphasis(<<"bold">>, <<"t">>), Mu>>)

MinimalSection == E("section", "id" :> <<"s1">>, <<>>, <<MinimalPara>>, <<>>)

Paras ==
    {Para(text, <<>>) : text \in {<<>>, <<" ">>, <<"a">>}}
    \cup {MinimalPara,
          Para(<<>>, <<Mu>>),
          Para(<<" ">>, <<Emphasis(<<"italics">>, <<>>)>>),
          Para(<<>>, <<E("newline", "count" :> <<"t", "w", "o">>, <<>>, <<>>, <<>>)>>),
          Para(<<" ">>, <<Table(<<" ">>)>>),
          Para(<<"a">>, <<Table(<<"b">>)>>),
          Para(<<>>, <<[Title(<<"T">>) EXCEPT !.tail = <<" ">>]>>),
          Para(<<"a">>, <<Title(<<>>)>>),
          Para(<<>>, <<E("media", NoAttrib, <<>>, <<>>, <<>>)>>)}

Blocks ==
    Paras
    \cup {E("section", attrib, <<>>, kids, <<>>) :
            attrib \in {NoAttrib, "id" :> <<"s1">>},
            kids \in {<<Title(<<"S">>), Para(<<"a">>, <<>>)>>, <<Para(<<" ">>, <<>>)>>,
                      <<E("section", "id" :> <<"s2">>, <<>>, <<Para(<<"a">>, <<>>)>>, <<>>)>>}}
    \cup {MinimalSection,
          E("list", NoAttrib, <<>>, <<E("item", NoAttrib, <<"i">>, <<>>, <<>>)>>, <<>>),
          E("list", "list-type" :> <<"enumerated">>, <<>>,
            <<Title(<<"L">>), E("item", NoAttrib, <<>>, <<Para(<<" ">>, <<>>)>>, <<>>)>>, <<>>),
          E("note", "id" :> <<"n1">>, <<>>, <<Title(<<"N">>), Para(<<"a">>, <<>>)>>, <<>>),
          E("note", "class" :> class_statistics_try, <<" ">>,
            <<[Para(<<>>, <<>>) EXCEPT !.tail = <<" ">>]>>, <<>>),
          E("note", NoAttrib, <<"n">>, <<[Emphasis(<<>>, <<>>) EXCEPT !.tail = <<"z">>]>>, <<>>),
          E("note", NoAttrib, <<>>, <<[E("foo", NoAttrib, <<>>, <<>>, <<>>) EXCEPT !.tail = <<"z">>],
                                      Para(<<>>, <<>>)>>, <<>>),
          E("figure", "id" :> <<"f1">>, <<>>,
            <<E("caption", NoAttrib, <<"c">>, <<>>, <<>>),
              E("media", NoAttrib, <<>>, <<Image(<<"5", "0">>)>>, <<>>)>>, <<>>),
          E("figure", NoAttrib, <<>>, <<E("media", NoAttrib, <<>>, <<Image(<<"U+00B2">>)>>, <<>>)>>,
            <<>>),
          E("example", NoAttrib, <<>>, <<Para(<<"a">>, <<>>), Para(<<>>, <<>>)>>, <<>>),
          E("exercise", "id" :> <<"e1">>, <<>>,
            <<E("problem", NoAttrib, <<>>, <<Para(<<"a">>, <<>>)>>, <<>>),
              E("solution", NoAttrib, <<" ">>, <<Para(<<" ">>, <<>>)>>, <<>>)>>, <<>>),
          E("media", NoAttrib, <<>>, <<Image(<<"5", "0", "%">>)>>, <<>>),
          E("equation", NoAttrib, <<>>, <<Mu>>, <<>>),
          Table(<<>>),
          E("foo", "bar" :> <<"baz">>, <<"u">>, <<>>, <<>>)}

\* A parsed source file: the document element with its title and, when
\* present, the content root.
Document(blocks) ==
    E("document", NoAttrib, <<>>, <<Title(<<"D">>), E("content", NoAttrib, <<>>, blocks, <<>>)>>,
      <<>>)

DocumentWithoutContent == E("document", NoAttrib, <<>>, <<Title(<<"D">>)>>, <<>>)

ModuleInputs ==
    {Document(blocks) : blocks \in SeqsUpTo(Blocks, MaxBlocks)} \cup {DocumentWithoutContent}

\* What the caller of convert_appendix sees when it returns None: nothing was
\* written to the output file.
ReturnedNone == <<"None">>

InitModule ==
    /\ variant \in ModuleVariants
    /\ elem \in ModuleInputs
    /\ result = <<>>
    /\ exc = "none"
    /\ pc = "ready"

\* One call convert_module(filepath, section_id, section_title) of a chapter
\* script, for a file that parses to elem; result is the returned string.
ConvertModule ==
    /\ pc = "ready"
    /\ variant \in ChapterVariants
    /\ LET r == convert_module(variant, elem)
       IN  IF Raised(r)
           THEN result' = <<>> /\ exc' = "ValueError"
           ELSE result' = r /\ exc' = "none"
    /\ pc' = "done"
    /\ UNCHANGED <<variant, elem>>

\* One call convert_appendix(module_id), for a file that parses to elem;
\* result is the text written to the output file, or ReturnedNone.
ConvertAppendix ==
    /\ pc = "ready"
    /\ variant = "appendices"
    /\ LET r == convert_appendix(elem)
       IN  result' = IF r.written THEN r.text ELSE ReturnedNone
    /\ exc' = "none"
    /\ pc' = "done"
    /\ UNCHANGED <<variant, elem>>

NextModule == ConvertModule \/ ConvertAppendix

SpecModule == InitModule /\ [][NextModule]_vars

(***************************************************************************)
(* Properties of the Inline Renderer (SpecInline).                          *)
(***************************************************************************)

\* The input is a paragraph whose only content is one emphasis element
\* holding a single character of the variable-name set.
OneVariableEmphasis ==
    /\ elem.text = <<>>
    /\ Len(elem.kids) = 1
    /\ elem.kids[1].tag = "emphasis"
    /\ elem.kids[1].kids = <<>>
    /\ elem.kids[1].tail = <<>>
    /\ elem.kids[1].text \in {<<c>> : c \in variable_names}

\* C3: an emphasis element whose flattened text is one character of the
\* variable-name set is rendered as a math variable, <m>c</m>, whatever its
\* effect attribute is (italics, bold, another value, or absent), and never as
\* <em>, <alert>, <term> or bare text.
C3_VariableEmphasisIsMath ==
    (pc = "done" /\ OneVariableEmphasis)
        => result = <<"<m>">> \o elem.kids[1].text \o <<"</m>">>

(***************************************************************************)
(* Properties of process_para (SpecPara).                                   *)
(***************************************************************************)

\* The paragraph's first child is a table: the text before it is the
\* paragraph's own text, the text after it the table's tail.
TableSplitCase ==
    /\ pc = "done"
    /\ variant = "ch09_full"
    /\ Len(elem.kids) >= 1
    /\ IsTag(elem.kids[1], "c", "table")

\* The paragraph block holding text s, or nothing when s is blank; s is
\* copied as it is or escaped.
ParagraphOf(s) ==
    IF strip(s) = <<>> THEN {<<>>}
    ELSE {tag_line(Spaces(4), "<p>", t, "</p>") : t \in {strip(s), xml_escape(strip(s))}}

HasEmptyParagraph(s) ==
    \E i \in 1..Len(s) : \E j \in (i + 1)..Len(s) :
        /\ s[i] = "<p>"
        /\ s[j] = "</p>"
        /\ \A k \in (i + 1)..(j - 1) : s[k] \in WS

Count(s, token) == Cardinality({i \in 1..Len(s) : s[i] = token})

\* The content root holds one paragraph, and the Inline Renderer's output for
\* it is blank.
OneBlankParagraph ==
    /\ Len(elem.kids) = 2
    /\ Len(elem.kids[2].kids) = 1
    /\ elem.kids[2].kids[1].tag = "para"
    /\ strip(render_inline(variant, elem.kids[2].kids[1])) = <<>>

\* C4: no output of a conversion holds a paragraph tag with empty or
\* whitespace-only content, and a source paragraph whose rendered inline
\* content is blank yields no <p> at all.
C4_NoEmptyParagraph ==
    pc = "done" =>
        /\ ~HasEmptyParagraph(result)
        /\ OneBlankParagraph => Count(result, "<p>") = 0

\* A document whose only paragraph is a blank has been converted.
C4_Witness ==
    /\ pc = "done"
    /\ exc = "none"
    /\ elem = Document(<<Para(<<" ">>, <<>>)>>)
    /\ Count(result, "<p>") = 0
    /\ result # <<>>

\* The elements of s between the first <p> and the first </p>, whitespace
\* left out.
ParagraphBody(s) ==
    LET open == CHOOSE i \in 1..Len(s) : s[i] = "<p>" /\ \A k \in 1..(i - 1) : s[k] # "<p>"
        close == CHOOSE j \in 1..Len(s) : s[j] = "</p>" /\ \A k \in 1..(j - 1) : s[k] # "</p>"
    IN  SelectSeq(SubSeq(s, open + 1, close - 1), LAMBDA c : c \notin WS)

\* The minimal document: as the content of a module whose section the
\* converter opens itself, or as a section of its own.
MinimalDocuments == {Document(<<MinimalPara>>), Document(<<MinimalSection>>)}

\* C5: converting the minimal document (one section, one paragraph, one bold
\* span "t", one inline math element holding mu) gives one section container
\* with an identifier that holds exactly one paragraph, which wraps
\* <term>t</term> and <m>\mu</m>, and no empty paragraph beside it.
C5_MinimalDocument ==
    (pc = "done" /\ elem \in MinimalDocuments) =>
        /\ exc = "none"
        /\ Count(result, "<section xml:id=\"") = 1
        /\ Count(result, "</section>") = 1
        /\ Count(result, "<p>") = 1
        /\ Count(result, "</p>") = 1
        /\ ParagraphBody(result) = <<"<term>", "t", "</term>", "<m>", "\\mu", "</m>">>
        /\ ~HasEmptyParagraph(result)

\* The parsed file has no content element.
NoContentCase == pc = "done" /\ elem = DocumentWithoutContent

\* C9 as stated: for a module without content root the converter returns the
\* empty structural shell (the container's opening tag with identifier and
\* title, then its closing tag), never the empty string or None.
C9_EmptyShell ==
    NoContentCase =>
        /\ result # <<>>
        /\ result # ReturnedNone
        /\ result = IF variant = "appendices"
                    THEN convert_appendix(Document(<<>>)).text
                    ELSE convert_module(variant, Document(<<>>))

\* C9 as the code has it: for a module without content root convert_module
\* returns the empty string and convert_appendix returns None without writing
\* the output file; neither raises and no container tag is emitted.
C9_NoContentNoOutput ==
    NoContentCase =>
        /\ exc = "none"
        /\ result = IF variant = "appendices" THEN ReturnedNone ELSE <<>>

\* A chapter script has converted a document that has no content element.
C9_Witness == NoContentCase /\ variant = "ch11" /\ result = <<>>

\* C10: no conversion raises, whatever tags and attribute values the source
\* tree holds (an unknown tag, effect, class or list-type, a newline count
\* that is not a number, an image width of digits outside ASCII).
C10_NeverRaises == pc = "done" => exc = "none"

(***************************************************************************)
(* convert_module applied to a content root with several direct children    *)
(* (SpecDispatch).                                                          *)
(***************************************************************************)

\* The most direct children the content root of an input document has.
MaxDispatchKids == 2

DispatchBlocks ==
    {Para(<<"a">>, <<>>),
     Para(<<"b">>, <<>>),
     E("section", "id" :> <<"s1">>, <<>>, <<Title(<<"S">>), Para(<<"c">>, <<>>)>>, <<>>),
     E("list", NoAttrib, <<>>, <<E("item", NoAttrib, <<"i">>, <<>>, <<>>)>>, <<>>),
     E("note", NoAttrib, <<>>, <<Para(<<"n">>, <<>>)>>, <<>>),
     E("foo", NoAttrib, <<"u">>, <<>>, <<>>)}

DispatchInputs == {Document(blocks) : blocks \in SeqsUpTo(DispatchBlocks, MaxDispatchKids)}

InitDispatch ==
    /\ variant \in ChapterVariants
    /\ elem \in DispatchInputs
    /\ result = <<>>
    /\ exc = "none"
    /\ pc = "ready"

NextDispatch == ConvertModule

SpecDispatch == InitDispatch /\ [][NextDispatch]_vars

\* The part of convert_module's output whole that lies between the module's
\* title and the module's closing tag.
ModuleBody(v, whole) ==
    LET empty == convert_module(v, Document(<<>>))
        closing == IF v = "ch11" THEN <<" ", " ", "</section>", "\n", "\n">>
                   ELSE <<"\n", " ", " ", "</section>", "\n">>
    IN  SubSeq(whole, Len(empty) - Len(closing) + 1, Len(whole) - Len(closing))

\* The block convert_module emits for child: the body of its output for a
\* content root holding child alone.
BlockOf(v, child) == ModuleBody(v, convert_module(v, Document(<<child>>)))

\* C11: convert_module dispatches every direct child of the content root
\* exactly once and in document order: for a content root with children
\* c1..cn the output is the module's opening, then the blocks emitted for c1,
\* ..., cn in this order, then the module's closing, whether or not one of
\* the children is a section.
C11_EveryChildDispatched ==
    pc = "done" =>
        LET blocks == elem.kids[2].kids
        IN  /\ exc = "none"
            /\ ModuleBody(variant, result)
                   = Flatten([i \in 1..Len(blocks) |-> BlockOf(variant, blocks[i])])

\* The same for the scripts whose convert_module loops over the children of
\* the content root (convert_ch06_full.py, convert_ch09_full.py).
C11_LoopOverChildren == variant # "ch11" => C11_EveryChildDispatched

(***************************************************************************)
(* The conversion of a module whose content root holds sections nested in   *)
(* each other (SpecSection).                                                *)
(***************************************************************************)

\* The most source sections that are nested in each other.
MaxSectionDepth == 3

\* The id attributes of a chain of nested sections, outermost first; <<>>
\* stands for a section without id attribute.
SectionIds == SeqsUpTo({<<>>, <<"s1">>}, MaxSectionDepth) \ {<<>>}

\* Sections nested in each other, one per element of ids; each holds a title,
\* the paragraph para and then the next section.
RECURSIVE NestedSections(_, _)
NestedSections(ids, para) ==
    E("section", IF Head(ids) = <<>> THEN NoAttrib ELSE "id" :> Head(ids), <<>>,
      <<Title(<<"T">>), para>>
      \o (IF Len(ids) = 1 THEN <<>> ELSE <<NestedSections(Tail(ids), para)>>),
      <<>>)

SectionInputs ==
    {Document(<<NestedSections(ids, Para(text, <<>>))>>) :
        ids \in SectionIds, text \in {<<"a">>, <<" ">>}}

InitSection ==
    /\ variant \in ModuleVariants
    /\ elem \in SectionInputs
    /\ result = <<>>
    /\ exc = "none"
    /\ pc = "ready"

NextSection == ConvertModule \/ ConvertAppendix

SpecSection == InitSection /\ [][NextSection]_vars

\* The id attributes of the chain of sections below root, outermost first.
RECURSIVE SourceIds(_)
SourceIds(e) ==
    LET section == FindChild(e, "c", "section")
    IN  IF section = None THEN <<>>
        ELSE <<Attr(section, "id", <<>>)>> \o SourceIds(section)

\* The opening and closing tags of section containers in s, in their order.
ContainerTags(s) ==
    LET name(token) ==
            IF token = "<section xml:id=\"" THEN "section"
            ELSE IF token \in {"<subsection xml:id=\"", "<subsection"} THEN "subsection"
            ELSE IF token = "</section>" THEN "/section"
            ELSE IF token = "</subsection>" THEN "/subsection"
            ELSE "other"
        tags == [i \in 1..Len(s) |-> name(s[i])]
    IN  SelectSeq(tags, LAMBDA t : t # "other")

\* The container tags the source sections gave rise to: a chapter script's
\* output without the module's own <section> ... </section>.
SourceContainerTags ==
    LET tags == ContainerTags(result)
    IN  IF variant \in ChapterVariants THEN SubSeq(tags, 2, Len(tags) - 1) ELSE tags

\* The container tags of a chain of n sections nested in each other: a
\* top-level section around n - 1 subsections.
NestedTags(n) ==
    <<"section">> \o [i \in 1..(n - 1) |-> "subsection"]
    \o [i \in 1..(n - 1) |-> "/subsection"] \o <<"/section">>

\* C12: a source section nested at any depth d below the content root is
\* never dropped; it is emitted as a top-level <section> when d = 0 and as a
\* <subsection> when d >= 1, with matching opening and closing tags, inside
\* the container emitted for its parent section, however deep it lies.
C12_NestedSections ==
    pc = "done" =>
        /\ exc = "none"
        /\ SourceContainerTags = NestedTags(Len(SourceIds(elem.kids[2])))

\* The same for convert_appendices.py alone.
C12_AppendixSections == variant = "appendices" => C12_NestedSections

\* The section containers opened in s, in their order: whether the opening
\* tag has an xml:id attribute, and the attribute's value.
OpenedContainers(s) ==
    LET opens == {"<section xml:id=\"", "<subsection xml:id=\"", "<subsection"}
        at == SelectSeq([i \in 1..Len(s) |-> i], LAMBDA i : s[i] \in opens)
        first(i) == IF s[i] = "<subsection" THEN i + 2 ELSE i + 1
        last(i) == CHOOSE j \in first(i)..Len(s) :
                       /\ s[j] \in {"\"", "\">"}
                       /\ \A k \in first(i)..(j - 1) : s[k] \notin {"\"", "\">"}
        has(i) == s[i] # "<subsection" \/ s[i + 1] = " xml:id=\""
    IN  [n \in 1..Len(at) |->
            [has |-> has(at[n]),
             id |-> IF has(at[n]) THEN SubSeq(s, first(at[n]), last(at[n]) - 1) ELSE <<>>]]

\* The containers the source sections gave rise to: a chapter script's output
\* without the module's own <section>.
SourceContainers ==
    LET opened == OpenedContainers(result)
    IN  IF variant \in ChapterVariants THEN Tail(opened) ELSE opened

\* C18: every emitted nested section container carries an identifier
\* attribute: the source section's id, character for character, when the
\* source has one, and a synthesized identifier when it has none; no nested
\* section is emitted without an xml:id.
C18_SectionIdentifier ==
    pc = "done" =>
        LET ids == SourceIds(elem.kids[2])
            emitted == SourceContainers
        IN  /\ Len(emitted) <= Len(ids)
            /\ \A n \in 1..Len(emitted) :
                   /\ emitted[n].has
                   /\ emitted[n].id # <<>>
                   /\ ids[n] # <<>> => emitted[n].id = ids[n]

\* The same for convert_appendices.py alone.
C18_AppendixIdentifier == variant = "appendices" => C18_SectionIdentifier

(***************************************************************************)
(* The conversion of a module that holds one table, as a direct child of    *)
(* the content root or of a section (SpecTable).                            *)
(***************************************************************************)

\* The most rows the body group of an input table has.
MaxTableRows == 2

Row(texts) == E("row", NoAttrib, <<>>, [j \in 1..Len(texts) |-> Entry(texts[j])], <<>>)

\* The entry texts of the rows of a header group and of a body group.
HeadRows == {<<>>, << <<<<"h">>, <<"k">>>> >>}

BodyRows == SeqsUpTo({<< <<"x">> >>, << <<"x">>, <<"y">> >>}, MaxTableRows)

\* A table whose tgroup declares cols columns and holds a header group with
\* the rows head (left out when there are none) and a body group with the
\* rows body.
TableOf(cols, head, body) ==
    E("table", "id" :> <<"t1">>, <<>>,
      << E("tgroup", "cols" :> cols, <<>>,
           (IF head = <<>> THEN <<>>
            ELSE << E("thead", NoAttrib, <<>>, [i \in 1..Len(head) |-> Row(head[i])], <<>>) >>)
           \o << E("tbody", NoAttrib, <<>>, [i \in 1..Len(body) |-> Row(body[i])], <<>>) >>,
           <<>>) >>,
      <<>>)

TableInputs ==
    LET tables == {TableOf(cols, head, body) :
                      cols \in {<<"1">>, <<"3">>}, head \in HeadRows, body \in BodyRows}
    IN  {Document(<<t>>) : t \in tables}
        \cup {Document(<<E("section", "id" :> <<"s1">>, <<>>, <<t>>, <<>>)>>) : t \in tables}

InitTable ==
    /\ variant \in ModuleVariants
    /\ elem \in TableInputs
    /\ result = <<>>
    /\ exc = "none"
    /\ pc = "ready"

NextTable == ConvertModule \/ ConvertAppendix

SpecTable == InitTable /\ [][NextTable]_vars

\* The rows of the source table below e, header group first: for each row
\* the texts of its entries.
SourceRows(e) ==
    LET rows == FindAll(e, "c", "row")
    IN  [i \in 1..Len(rows) |->
            [j \in 1..Len(rows[i].kids) |-> rows[i].kids[j].text]]

\* The rows emitted in s: for each row the contents of its cells.
EmittedRows(s) ==
    LET opens == {"<row>", "<row header=\"yes\">"}
        next(i, token) == CHOOSE j \in i..Len(s) :
                              s[j] = token /\ \A k \in i..(j - 1) : s[k] # token
        rows == SelectSeq([i \in 1..Len(s) |-> i], LAMBDA i : s[i] \in opens)
        cells(i) == SelectSeq([k \in 1..Len(s) |-> k],
                              LAMBDA k : k > i /\ k < next(i, "</row>") /\ s[k] = "<cell>")
    IN  [n \in 1..Len(rows) |->
            [c \in 1..Len(cells(rows[n])) |->
                SubSeq(s, cells(rows[n])[c] + 1, next(cells(rows[n])[c], "</cell>") - 1)]]

\* C13: a source table that is a direct child of the content root or of a
\* section is emitted as one table whose rows are the rows of the header
\* group followed by the rows of the body group, each row holding one cell
\* per entry of the source row, in order, whatever column count is declared.
C13_TableRows ==
    pc = "done" =>
        /\ exc = "none"
        /\ Count(result, "</table>") = 1
        /\ EmittedRows(result) = SourceRows(elem)

\* The same for the scripts that have a table emitter (convert_ch09_full.py,
\* convert_appendices.py).
C13_TableEmitters == variant \in {"ch09_full", "appendices"} => C13_TableRows

(***************************************************************************)
(* The Math Rewriter applied to expressions that hold the symbol Sigma      *)
(* (SpecSigma).                                                             *)
(***************************************************************************)

\* The most operands an mrow of an input expression has.
MaxSigmaRow == 2

Sigma == "U+03A3"

SigmaLeaves == {M("mi", <<Sigma>>, <<>>), M("mo", <<Sigma>>, <<>>)}

SigmaOperands == SigmaLeaves \cup {M("mi", <<"x">>, <<>>), M("mn", <<"1">>, <<>>)}

\* Constructs with all their operands.
SigmaConstructs ==
    {M(t, <<>>, ops) : t \in {"munder", "msub", "mfrac"}, ops \in [1..2 -> SigmaOperands]}
    \cup {M("munderover", <<>>, ops) : ops \in [1..3 -> SigmaOperands]}
    \cup {M("mrow", <<>>, ops) : ops \in SeqsUpTo(SigmaOperands, MaxSigmaRow) \ {<<>>}}

\* A math element holding one leaf or one construct.
SigmaInputs == {M("math", <<>>, <<c>>) : c \in SigmaOperands \cup SigmaConstructs}

InitSigma ==
    /\ variant \in MathVariants
    /\ elem \in SigmaInputs
    /\ result = <<>>
    /\ exc = "none"
    /\ pc = "ready"

NextSigma == RewriteMath

SpecSigma == InitSigma /\ [][NextSigma]_vars

\* The number of elements of seq that are TRUE.
RECURSIVE Sum(_)
Sum(seq) == IF seq = <<>> THEN 0 ELSE Head(seq) + Sum(Tail(seq))

\* The number of Sigma leaves below e that are (base = TRUE) or are not
\* (base = FALSE) the first child of a munder or munderover element.
RECURSIVE SigmaCount(_, _)
SigmaCount(e, base) ==
    Sum([i \in 1..Len(e.kids) |->
            LET kid == e.kids[i]
                is_base == i = 1 /\ e.tag \in {"munder", "munderover"}
            IN  IF kid \in SigmaLeaves
                THEN IF is_base = base THEN 1 ELSE 0
                ELSE SigmaCount(kid, base)])

\* C14: the symbol Sigma is rendered with its override mapping, \sum, exactly
\* when it is the base operand (child 0) of a munder or munderover construct,
\* and with its default mapping, \Sigma, in every other position, whether it
\* is an mi or an mo leaf.
C14_SigmaOverride ==
    pc = "done" =>
        /\ Count(result, "\\sum") = SigmaCount(elem, TRUE)
        /\ Count(result, "\\Sigma") = SigmaCount(elem, FALSE)

(***************************************************************************)
(* The Inline Renderer applied to a paragraph whose children are math       *)
(* elements (SpecInlineMath).                                               *)
(***************************************************************************)

\* The most math elements an input paragraph holds.
MaxMathKids == 1

MathContents ==
    {<<M("mi", <<"x">>, <<>>)>>,
     <<M("mi", <<"U+03BC">>, <<>>)>>,
     <<M("mrow", <<>>, <<M("mi", <<"x">>, <<>>), M("mo", <<"U+2212">>, <<>>),
                         M("mn", <<"1">>, <<>>)>>)>>,
     <<M("mfrac", <<>>, <<M("mn", <<"1">>, <<>>), M("mn", <<"2">>, <<>>)>>)>>}

\* A math element with a display attribute (<<>>: no attribute) and tail text.
MathKids ==
    {Node("m", "math", IF display = <<>> THEN NoAttrib ELSE "display" :> display, <<>>,
          content, tail) :
        display \in {<<>>, <<"block">>, <<"inline">>},
        content \in MathContents,
        tail \in {<<>>, <<" ", "b">>}}

InlineMathInputs ==
    {E("para", NoAttrib, text, kids, <<>>) :
        text \in {<<>>, <<"a", " ">>}, kids \in SeqsUpTo(MathKids, MaxMathKids)}

InitInlineMath ==
    /\ variant \in InlineVariants
    /\ elem \in InlineMathInputs
    /\ result = <<>>
    /\ exc = "none"
    /\ pc = "ready"

NextInlineMath == RenderInline

SpecInlineMath == InitInlineMath /\ [][NextInlineMath]_vars

\* The math tags of s in their order, each with what it encloses.
MathSpans(s) ==
    LET at == SelectSeq([i \in 1..Len(s) |-> i], LAMBDA i : s[i] \in {"<m>", "<me>"})
        closing(i) == IF s[i] = "<m>" THEN "</m>" ELSE "</me>"
        end(i) == CHOOSE j \in i..Len(s) :
                      s[j] = closing(i) /\ \A k \in i..(j - 1) : s[k] # closing(i)
    IN  [n \in 1..Len(at) |->
            [tag |-> s[at[n]], latex |-> SubSeq(s, at[n] + 1, end(at[n]) - 1)]]

\* C15: for every math element among a node's children the Inline Renderer
\* emits the Math Rewriter's output for that element inside a math tag, <me>
\* when the element's display attribute is 'block' and <m> otherwise; a math
\* element with a non-empty leaf never yields an empty string.
C15_MathChildWrapped ==
    pc = "done" =>
        /\ exc = "none"
        /\ MathSpans(result)
               = [i \in 1..Len(elem.kids) |->
                     [tag |-> IF Attr(elem.kids[i], "display", <<>>) = <<"block">>
                              THEN "<me>" ELSE "<m>",
                      latex |-> convert_mathml_to_latex(variant, elem.kids[i])]]
        /\ \A i \in 1..Len(MathSpans(result)) : MathSpans(result)[i].latex # <<>>

(***************************************************************************)
(* Escaping of source text in process_para (SpecPara).                      *)
(***************************************************************************)

\* s holds a character '&' or '<' that is not part of an entity or of a tag
\* the converter wrote.
HasRawSpecial(s) ==
    \E i \in 1..Len(s) :
        \/ s[i] = "<"
        \/ /\ s[i] = "&"
           /\ \A entity \in {amp, lt, gt, quot, apos} :
                  ~StartsWith(SubSeq(s, i, Len(s)), entity)

\* C16: every source text fragment copied into the output (a node's leading
\* text, each child's tail text, the text before a table in the
\* table-splitting branch of process_para) is escaped first, so no raw '&' or
\* '<' of the source text appears in the emitted paragraph text.
C16_SourceTextEscaped == pc = "done" => ~HasRawSpecial(result)

\* The same for the paragraphs that hold no table.
C16_WithoutTable ==
    FindAll(elem, "c", "table") = <<>> => C16_SourceTextEscaped

(***************************************************************************)
(* The conversion of a module whose content root holds one note             *)
(* (SpecNote).                                                              *)
(***************************************************************************)

\* The most children an input note has.
MaxNoteKids == 2

NoteClasses == {<<>>, class_collab, class_calculator, class_lab}

\* The attributes of a note with class attribute class and id attribute id
\* (<<>>: the attribute is absent).
NoteAttrib(class, id) ==
    [a \in {n \in {"class", "id"} : (IF n = "class" THEN class ELSE id) # <<>>} |->
        IF a = "class" THEN class ELSE id]

NoteKids ==
    SeqsUpTo({Title(<<"N">>), Para(<<"a">>, <<>>),
              E("list", NoAttrib, <<>>, <<E("item", NoAttrib, <<"i">>, <<>>, <<>>)>>, <<>>)},
             MaxNoteKids)

NoteInputs ==
    {Document(<<E("note", NoteAttrib(class, id), <<>>, kids, <<>>)>>) :
        class \in NoteClasses, id \in {<<>>, <<"n1">>}, kids \in NoteKids}

InitNote ==
    /\ variant \in ModuleVariants
    /\ elem \in NoteInputs
    /\ result = <<>>
    /\ exc = "none"
    /\ pc = "ready"

NextNote == ConvertModule \/ ConvertAppendix

SpecNote == InitNote /\ [][NextNote]_vars

\* What script v makes of the parsed file doc.
Converted(v, doc) ==
    IF v = "appendices" THEN convert_appendix(doc).text ELSE convert_module(v, doc)

NoteOpenings ==
    ("<note" :> "note") @@ ("<note xml:id=\"" :> "note") @@ ("<activity" :> "activity")
    @@ ("<aside" :> "aside") @@ ("<project" :> "project") @@ ("<exercise" :> "exercise")

NoteClosings ==
    ("</note>" :> "note") @@ ("</activity>" :> "activity") @@ ("</aside>" :> "aside")
    @@ ("</project>" :> "project") @@ ("</exercise>" :> "exercise")

\* The name of the first container of s that a note is emitted as, and the
\* name of the last closing tag of such a container ("none": there is none).
OpeningTag(s) ==
    LET at == {i \in 1..Len(s) : s[i] \in DOMAIN NoteOpenings}
    IN  IF at = {} THEN "none"
        ELSE NoteOpenings[s[CHOOSE i \in at : \A j \in at : i <= j]]

ClosingTag(s) ==
    LET at == {i \in 1..Len(s) : s[i] \in DOMAIN NoteClosings}
    IN  IF at = {} THEN "none"
        ELSE NoteClosings[s[CHOOSE i \in at : \A j \in at : i >= j]]

\* The container script v emits for the note of the input when its class
\* attribute is class.
TagForClass(v, class) ==
    LET note == elem.kids[2].kids[1]
        id == Attr(note, "id", <<>>)
    IN  OpeningTag(Converted(v, Document(<<[note EXCEPT !.attrib = NoteAttrib(class, id)]>>)))

\* C17: the container tag of a note is chosen from its class attribute: a
\* note with a collaborative-activity class and a note with a calculator
\* class get two different container tags, both different from the tag of a
\* note without class, and the closing tag equals the opening tag, in every
\* script that emits notes.
C17_NoteContainer ==
    pc = "done" =>
        /\ exc = "none"
        /\ OpeningTag(result) # "none"
        /\ ClosingTag(result) = OpeningTag(result)
        /\ OpeningTag(result) = TagForClass(variant, Attr(elem.kids[2].kids[1], "class", <<>>))
        /\ TagForClass(variant, class_collab) # TagForClass(variant, class_calculator)
        /\ TagForClass(variant, class_collab) # TagForClass(variant, <<>>)
        /\ TagForClass(variant, class_calculator) # TagForClass(variant, <<>>)

\* The same for convert_ch06_full.py alone.
C17_Ch06Full == variant = "ch06_full" => C17_NoteContainer

(***************************************************************************)
(* The glossary comparison of analyze_glossary.py and                       *)
(* create_action_summary.py (SpecGlossary).  The two scripts define         *)
(* normalize_term and find_missing_terms with the same statements.  A dict  *)
(* is a function from its keys; elem holds the two arguments.               *)
(***************************************************************************)
GlossaryVariants == {"analyze_glossary", "create_action_summary"}

\* str.lower() on the letters of the alphabet of the inputs.
lower_char(c) ==
    IF c = "I" THEN "i" ELSE IF c = "Q" THEN "q" ELSE IF c = "R" THEN "r" ELSE c

lower(s) == [i \in 1..Len(s) |-> lower_char(s[i])]

\* re.sub(r'\s*\([^)]*\)', '', term): scanning from the left, a match starts
\* at a run of whitespace (possibly empty) followed by "(" and ends at the
\* first ")" after it; a position where no match starts keeps its character.
RECURSIVE remove_parenthetical(_)
remove_parenthetical(term) ==
    IF term = <<>> THEN <<>>
    ELSE LET open == Len(term) - Len(lstrip(term)) + 1
             closes == {j \in (open + 1)..Len(term) : term[j] = ")"}
         IN  IF open <= Len(term) /\ term[open] = "(" /\ closes # {}
             THEN remove_parenthetical(
                      SubSeq(term, (CHOOSE j \in closes : \A k \in closes : j <= k) + 1,
                             Len(term)))
             ELSE <<Head(term)>> \o remove_parenthetical(Tail(term))

\* re.sub(r'\s+', ' ', term)
RECURSIVE collapse_whitespace(_)
collapse_whitespace(term) ==
    IF term = <<>> THEN <<>>
    ELSE IF Head(term) \in WS THEN <<" ">> \o collapse_whitespace(lstrip(term))
    ELSE <<Head(term)>> \o collapse_whitespace(Tail(term))

normalize_term(term) ==
    collapse_whitespace(strip(lower(remove_parenthetical(term))))

\* find_missing_terms: the entries of cnxml_terms whose normalized key is not
\* a key of ptx_normalized.
find_missing_terms_raw(cnxml_terms, ptx_terms) ==
    LET ptx_normalized == {ptx_terms[i] : i \in DOMAIN ptx_terms}
    IN  [term \in {t \in DOMAIN cnxml_terms : t \notin ptx_normalized} |->
            cnxml_terms[term]]

find_missing_terms(cnxml_terms, ptx_terms) ==
    LET ptx_normalized ==
            [n \in {normalize_term(ptx_terms[i]) : i \in DOMAIN ptx_terms} |->
                ptx_terms[CHOOSE i \in DOMAIN ptx_terms :
                            /\ normalize_term(ptx_terms[i]) = n
                            /\ \A j \in DOMAIN ptx_terms :
                                   normalize_term(ptx_terms[j]) = n => j <= i]]
    IN  [term \in {t \in DOMAIN cnxml_terms : normalize_term(t) \notin DOMAIN ptx_normalized} |->
            cnxml_terms[term]]

\* The most entries of the source glossary and the most target titles.
MaxSourceTerms == 2
MaxTargetTitles == 2

\* Terms as extract_cnxml_glossary and extract_ptx_glossary produce them
\* (stripped): "IQ", "iq (R)", "i  q", "i<TAB>q", "i((a)q)", "i(q".
GlossaryTerms ==
    {<<"I", "Q">>, <<"i", "q", " ", "(", "R", ")">>, <<"i", " ", " ", "q">>,
     <<"i", "\t", "q">>, <<"i", "(", "(", "a", ")", "q", ")">>, <<"i", "(", "q">>}

Definitions == {<<"d">>, <<"e">>}

SourceGlossaries ==
    UNION {[keys -> Definitions] :
              keys \in {k \in SUBSET GlossaryTerms : Cardinality(k) <= MaxSourceTerms}}

GlossaryInputs ==
    {[cnxml_terms |-> g, ptx_terms |-> titles] :
        g \in SourceGlossaries, titles \in SeqsUpTo(GlossaryTerms, MaxTargetTitles)}

InitGlossary ==
    /\ variant \in GlossaryVariants
    /\ elem \in GlossaryInputs
    /\ result = <<>>
    /\ exc = "none"
    /\ pc = "ready"

FindMissingTerms ==
    /\ pc = "ready"
    /\ variant \in GlossaryVariants
    /\ result' = find_missing_terms(elem.cnxml_terms, elem.ptx_terms)
    /\ pc' = "done"
    /\ UNCHANGED <<variant, elem, exc>>

NextGlossary == FindMissingTerms

SpecGlossary == InitGlossary /\ [][NextGlossary]_vars

\* s is lower-case, holds no parenthetical part (no "(" with a ")" after
\* it), no whitespace at either end, and no whitespace but single spaces.
IsNormalized(s) ==
    /\ \A i \in 1..Len(s) : lower_char(s[i]) = s[i] /\ s[i] \notin WS \ {" "}
    /\ \A i \in 1..Len(s) : s[i] = "(" => \A j \in (i + 1)..Len(s) : s[j] # ")"
    /\ strip(s) = s
    /\ \A i \in 1..(Len(s) - 1) : ~(s[i] = " " /\ s[i + 1] = " ")

RunVariants == {"ch06_full", "appendices"}

\* The number of modules main() converts.
MaxRunModules == 3

RunModules == 1..MaxRunModules

\* A source file: absent, not well-formed, or parsing to root.
MissingFile == [exists |-> FALSE, well_formed |-> FALSE, root |-> DocumentWithoutContent]

MalformedFile == [exists |-> TRUE, well_formed |-> FALSE, root |-> DocumentWithoutContent]

ParsedFile(root) == [exists |-> TRUE, well_formed |-> TRUE, root |-> root]

SourceFiles ==
    {MissingFile, MalformedFile, ParsedFile(DocumentWithoutContent),
     ParsedFile(Document(<<Para(<<"a">>, <<>>)>>))}

\* A destination file before the run: absent, or holding text.
DestinationFiles ==
    {[exists |-> FALSE, text |-> <<>>],
     [exists |-> TRUE, text |-> <<"<introduction>", "i", "</introduction>", "x">>],
     [exists |-> TRUE, text |-> <<"x">>]}

RunInputs ==
    {[sources |-> sources, current |-> current] :
        sources \in [RunModules -> SourceFiles], current \in DestinationFiles}

\* The units of a run of script v, and the modules of unit u.
Units(v) == IF v = "ch06_full" THEN {1} ELSE RunModules

ModulesOf(v, u) == IF v = "ch06_full" THEN RunModules ELSE {u}

\* ET.parse(path) followed by getroot(): the root, or the exception raised.
parse_lenient(file) ==
    IF ~file.exists THEN [raised |-> "FileNotFoundError", root |-> None]
    ELSE [raised |-> "none", root |-> file.root]

parse(file) ==
    IF ~file.exists THEN [raised |-> "FileNotFoundError", root |-> None]
    ELSE IF ~file.well_formed THEN [raised |-> "ParseError", root |-> None]
    ELSE [raised |-> "none", root |-> file.root]

\* re.search(r'(<introduction>.*?</introduction>)', current, re.DOTALL) and
\* the choice of intro that follows it.
intro_of(current) ==
    LET starts == {a \in 1..Len(current) :
                      /\ current[a] = "<introduction>"
                      /\ \E b \in (a + 1)..Len(current) : current[b] = "</introduction>"}
        a == CHOOSE x \in starts : \A y \in starts : x <= y
        ends == {b \in (a + 1)..Len(current) : current[b] = "</introduction>"}
    IN  IF starts = {} THEN <<"<introduction/>">>
        ELSE SubSeq(current, a, CHOOSE x \in ends : \A y \in ends : x <= y)

\* The document main() of convert_ch06_full.py assembles.
chapter_output(intro, sections) ==
    <<"<?xml version=\"1.0\" encoding=\"UTF-8\"?>", "\n",
      "<chapter xml:id=\"ch06-normal-distribution\" xmlns:xi=\"http://www.w3.org/2001/XInclude\">",
      "\n", " ", " ", "<title>", "The Normal Distribution", "</title>", "\n", "\n", " ", " ">>
    \o intro \o <<"\n">> \o Flatten(sections) \o <<"</chapter>", "\n">>

InitRun ==
    /\ variant \in RunVariants
    /\ elem \in RunInputs
    /\ result = [i |-> 0, intro |-> <<>>, sections |-> <<>>, lines |-> <<>>,
                 files |-> [u \in Units(variant) |->
                               [writes |-> 0, exists |-> elem.current.exists,
                                text |-> elem.current.text]]]
    /\ exc = "none"
    /\ pc = "main"

\* current = Path(...).read_text() and the extraction of the introduction.
ReadCurrent ==
    /\ pc = "main"
    /\ variant = "ch06_full"
    /\ IF ~result.files[1].exists
       THEN exc' = "FileNotFoundError" /\ pc' = "failed" /\ UNCHANGED result
       ELSE /\ result' = [result EXCEPT !.intro = intro_of(result.files[1].text)]
            /\ pc' = "converting"
            /\ UNCHANGED exc
    /\ UNCHANGED <<variant, elem>>

\* One call of convert_module in main() of convert_ch06_full.py.
ConvertNextModule ==
    /\ pc = "converting"
    /\ variant = "ch06_full"
    /\ result.i < MaxRunModules
    /\ LET p == parse(elem.sources[result.i + 1])
           r == convert_module(variant, p.root)
       IN  IF p.raised # "none"
           THEN /\ result' = [result EXCEPT !.i = @ + 1]
                /\ exc' = p.raised
                /\ pc' = "failed"
           ELSE IF Raised(r)
           THEN /\ result' = [result EXCEPT !.i = @ + 1]
                /\ exc' = "ValueError"
                /\ pc' = "failed"
           ELSE /\ result' = [result EXCEPT !.i = @ + 1, !.sections = Append(@, r)]
                /\ UNCHANGED <<exc, pc>>
    /\ UNCHANGED <<variant, elem>>

\* The assembly of the document and output_path.write_text(output).
WriteChapter ==
    /\ pc = "converting"
    /\ variant = "ch06_full"
    /\ result.i = MaxRunModules
    /\ result' = [result EXCEPT
                     !.files[1] = [writes |-> @.writes + 1, exists |-> TRUE,
                                   text |-> chapter_output(result.intro, result.sections)]]
    /\ pc' = "done"
    /\ UNCHANGED <<variant, elem, exc>>

\* main() of convert_appendices.py enters its loop.
StartAppendices ==
    /\ pc = "main"
    /\ variant = "appendices"
    /\ pc' = "loop"
    /\ UNCHANGED <<variant, elem, result, exc>>

\* One call of convert_appendix up to the end of its loop over the content:
\* the check that the file exists, the parse, the lines.
BuildAppendix ==
    /\ pc = "loop"
    /\ variant = "appendices"
    /\ result.i < MaxRunModules
    /\ LET file == elem.sources[result.i + 1]
           p == parse(file)
           r == convert_appendix(p.root)
       IN  IF ~file.exists
           THEN /\ result' = [result EXCEPT !.i = @ + 1]
                /\ UNCHANGED <<exc, pc>>
           ELSE IF p.raised # "none"
           THEN /\ result' = [result EXCEPT !.i = @ + 1]
                /\ exc' = p.raised
                /\ pc' = "failed"
           ELSE IF ~r.written
           THEN /\ result' = [result EXCEPT !.i = @ + 1]
                /\ UNCHANGED <<exc, pc>>
           ELSE /\ result' = [result EXCEPT !.i = @ + 1, !.lines = r.text]
                /\ pc' = "write"
                /\ UNCHANGED exc
    /\ UNCHANGED <<variant, elem>>

\* output_path.write_text('\n'.join(lines)) and the return to main().
WriteAppendix ==
    /\ pc = "write"
    /\ variant = "appendices"
    /\ result' = [result EXCEPT
                     !.files[result.i] = [writes |-> @.writes + 1, exists |-> TRUE,
                                          text |-> result.lines],
                     !.lines = <<>>]
    /\ pc' = "loop"
    /\ UNCHANGED <<variant, elem, exc>>

\* The loop of main() of convert_appendices.py is exhausted.
FinishAppendices ==
    /\ pc = "loop"
    /\ variant = "appendices"
    /\ result.i = MaxRunModules
    /\ pc' = "done"
    /\ UNCHANGED <<variant, elem, result, exc>>

NextRun ==
    \/ ReadCurrent
    \/ ConvertNextModule
    \/ WriteChapter
    \/ StartAppendices
    \/ BuildAppendix
    \/ WriteAppendix
    \/ FinishAppendices

SpecRun == InitRun /\ [][NextRun]_vars

\* Module m has been parsed and converted: its call has been made and its
\* file was there and well-formed.
ParsedAndConverted(m) ==
    /\ m <= result.i
    /\ elem.sources[m].exists
    /\ elem.sources[m].well_formed
    /\ exc = "none"

\* The parse of module m has failed.
ParseFailed(m) ==
    /\ m <= result.i
    /\ elem.sources[m].exists
    /\ ~elem.sources[m].well_formed

\* The destination file of unit u is as it was before the run.
Untouched(u) ==
    /\ result.files[u].writes = 0
    /\ result.files[u].exists = elem.current.exists
    /\ result.files[u].text = elem.current.text

RunInvariant ==
    \A u \in Units(variant) :
        /\ result.files[u].writes <= 1
        /\ result.files[u].writes = 0 => Untouched(u)
        /\ result.files[u].writes = 1 =>
               \A m \in ModulesOf(variant, u) :
                   /\ m <= result.i
                   /\ elem.sources[m].exists
                   /\ elem.sources[m].well_formed
        /\ (\E m \in ModulesOf(variant, u) : ParseFailed(m)) =>
               /\ exc = "ParseError"
               /\ pc = "failed"
               /\ Untouched(u)

RunStep ==
    /\ \A u \in Units(variant) :
           result'.files[u] # result.files[u] =>
               /\ result.files[u].writes = 0
               /\ result'.files[u].writes = 1
               /\ \A m \in ModulesOf(variant, u) : ParsedAndConverted(m)
    /\ pc = "failed" => UNCHANGED vars

\* C20: in every run of a chapter or appendix conversion the destination
\* file of a unit is written at most once and only after every source module
\* of the unit has been parsed and converted; when the parse of a module of
\* the unit fails, the failure leaves main() and the unit's destination file
\* is neither written nor modified.
C20_SingleWriteAfterParse == []RunInvariant /\ [][RunStep]_vars

\* A run of convert_appendices.py that has written the file of one unit and
\* then fails on the malformed file of another.
C20_Witness ==
    /\ variant \in RunVariants
    /\ pc = "failed"
    /\ exc = "ParseError"
    /\ \E u \in Units(variant) : result.files[u].writes = 1
    /\ \E u \in Units(variant) : ParseFailed(u) /\ Untouched(u)

(***************************************************************************)
(* The Math Rewriter applied to mover nodes (SpecMover).                    *)
(***************************************************************************)

\* The most spaces around the text of an accent child.
MaxAccentPad == 1

Macron == "U+00AF"

AccentTexts ==
    {Repeat(<<" ">>, k) \o <<a>> \o Repeat(<<" ">>, k) :
        a \in {Macron, "^", "~", "U+2192"}, k \in 0..MaxAccentPad}

MoverInputs ==
    {M("math", <<>>, <<M("mover", <<>>, <<base, M(t, a, <<>>)>>)>>) :
        base \in MathOperands, t \in {"mo", "mi"}, a \in AccentTexts}

InitMover ==
    /\ variant \in MathVariants
    /\ elem \in MoverInputs
    /\ result = <<>>
    /\ exc = "none"
    /\ pc = "ready"

NextMover == RewriteMath

SpecMover == InitMover /\ [][NextMover]_vars

\* The command the claim gives for the accent text a ("": none).
AccentCommand(a) ==
    IF a = <<Macron>> THEN "\\overline{"
    ELSE IF a = <<"^">> THEN "\\hat{"
    ELSE IF a = <<"~">> THEN "\\tilde{"
    ELSE ""

\* C21: for an mover node with base b and an accent child whose literal text
\* is a, the rewrite is \overline{b} when a is the macron, \hat{b} when a is
\* "^" and \tilde{b} when a is "~", whatever symbol substitution applies to
\* the accent text.
C21_AccentSelected ==
    pc = "done" =>
        LET mover == elem.kids[1]
            a == strip(mover.kids[2].text)
        IN  AccentCommand(a) # "" =>
                result = <<AccentCommand(a)>> \o Rewritten(mover.kids[1]) \o <<"}">>

\* The same for the macron alone, in the scripts other than convert_ch06.py.
C21_Macron ==
    pc = "done" /\ variant # "ch06" /\ strip(elem.kids[1].kids[2].text) = <<Macron>> =>
        result = <<"\\overline{">> \o Rewritten(elem.kids[1].kids[1]) \o <<"}">>

(***************************************************************************)
(* The Math Rewriter of convert_appendices.py applied to mfenced nodes      *)
(* (SpecFence).                                                             *)
(***************************************************************************)

\* The most children an input mfenced node has.
MaxFenceKids == 2

\* The glyphs an open or close attribute holds (<<>>: no attribute).
OpenGlyphs == {<<>>, <<"(">>, <<"[">>, <<"{">>, <<"|">>, <<"U+27E8">>}

CloseGlyphs == {<<>>, <<")">>, <<"]">>, <<"}">>, <<"|">>, <<"U+27E9">>}

FenceAttrib(open, close) ==
    [a \in {n \in {"open", "close"} : (IF n = "open" THEN open ELSE close) # <<>>} |->
        IF a = "open" THEN open ELSE close]

FenceInputs ==
    {M("math", <<>>, <<Node("m", "mfenced", FenceAttrib(o, c), <<>>, kids, <<>>)>>) :
        o \in OpenGlyphs, c \in CloseGlyphs, kids \in SeqsUpTo(MathLeaves, MaxFenceKids)}

InitFence ==
    /\ variant = "appendices"
    /\ elem \in FenceInputs
    /\ result = <<>>
    /\ exc = "none"
    /\ pc = "ready"

NextFence == RewriteMath

SpecFence == InitFence /\ [][NextFence]_vars

\* The delimiter table of the claim: an opening command for each opening
\* glyph, a closing command for each closing glyph.
OpenCommands ==
    (<<"(">> :> <<"\\left(">>) @@ (<<"[">> :> <<"\\left[">>) @@
    (<<"{">> :> <<"\\left\\{">>) @@ (<<"|">> :> <<"\\left|">>)

CloseCommands ==
    (<<")">> :> <<"\\right)">>) @@ (<<"]">> :> <<"\\right]">>) @@
    (<<"}">> :> <<"\\right\\}">>) @@ (<<"|">> :> <<"\\right|">>)

IsLeft(token) == token \in {"\\left(", "\\left[", "\\left\\{", "\\left|"}

IsRight(token) == token \in {"\\right)", "\\right]", "\\right\\}", "\\right|"}

\* C22: for an mfenced node with open glyph o and close glyph c the output
\* is the opening command of o, the rewritten content, the closing command
\* of c; a glyph outside the table is emitted literally; every emitted \left
\* has a matching \right.
C22_FenceDelimiters ==
    pc = "done" =>
        LET fenced == elem.kids[1]
            o == Attr(fenced, "open", <<"(">>)
            c == Attr(fenced, "close", <<")">>)
        IN  /\ result = DictGet(OpenCommands, o, o) \o Rewritten(fenced)
                        \o DictGet(CloseCommands, c, c)
            /\ (o \in DOMAIN OpenCommands /\ c \in DOMAIN CloseCommands =>
                    Cardinality({i \in 1..Len(result) : IsLeft(result[i])})
                    = Cardinality({i \in 1..Len(result) : IsRight(result[i])}))

\* The same when the close glyph is not the vertical bar.
C22_NoClosingBar ==
    Attr(elem.kids[1], "close", <<")">>) # <<"|">> => C22_FenceDelimiters

(***************************************************************************)
(* The conversion of a module whose content root holds one figure with an   *)
(* image (SpecImage).                                                       *)
(***************************************************************************)

\* The most digits of a source width.
MaxWidthDigits == 3

WidthDigits == {"0", "3", "5"}

PixelWidths == SeqsUpTo(WidthDigits, MaxWidthDigits) \ {<<>>}

PercentWidths == {w \o <<"%">> : w \in SeqsUpTo(WidthDigits, MaxWidthDigits - 1) \ {<<>>}}

ImageInputs ==
    {Document(<<E("figure", NoteAttrib(<<>>, id), <<>>,
                  <<E("media", NoAttrib, <<>>, <<Image(w)>>, <<>>)>>, <<>>)>>) :
        id \in {<<>>, <<"f1">>}, w \in PixelWidths \cup PercentWidths}

InitImage ==
    /\ variant \in ModuleVariants
    /\ elem \in ImageInputs
    /\ result = <<>>
    /\ exc = "none"
    /\ pc = "ready"

NextImage == ConvertModule \/ ConvertAppendix

SpecImage == InitImage /\ [][NextImage]_vars

\* The value of the width attribute in the markup s (<<>>: no width).
EmittedWidth(s) ==
    LET at == {i \in 1..Len(s) : s[i] \in {" width=\"", "width=\""}}
        i == CHOOSE x \in at : TRUE
        close == CHOOSE j \in (i + 1)..Len(s) :
                     s[j] = "\"" /\ \A k \in (i + 1)..(j - 1) : s[k] # "\""
    IN  IF at = {} THEN <<>> ELSE SubSeq(s, i + 1, close - 1)

SourceWidth == Attr(Find(elem, "c", "image"), "width", <<>>)

ImageEmitted ==
    pc = "done" /\ \E i \in 1..Len(result) :
        result[i] \in {"<image source=\"", "<image source=\"../media/"}

\* C23: a source width that is a literal percentage is emitted unchanged; a
\* source width that is a pixel count w is emitted as floor(w / 5) percent,
\* in every script, never as w percent (for w above zero).
C23_WidthPercent ==
    ImageEmitted =>
        IF SourceWidth \in PercentWidths
        THEN EmittedWidth(result) = SourceWidth
        ELSE /\ EmittedWidth(result) = py_str(DigitsValue(SourceWidth) \div 5) \o <<"%">>
             /\ (DigitsValue(SourceWidth) > 0 =>
                     EmittedWidth(result) # py_str(DigitsValue(SourceWidth)) \o <<"%">>)

\* The same for the chapter scripts alone.
C23_ChapterWidth == variant \in ChapterVariants => C23_WidthPercent

(***************************************************************************)
(* The conversion of a module whose content root holds one list             *)
(* (SpecList).                                                              *)
(***************************************************************************)

\* The most items an input list has.
MaxListItems == 2

Item(text, kids) == E("item", NoAttrib, text, kids, <<>>)

ListOf(list_type, items) ==
    E("list", IF list_type = <<>> THEN NoAttrib ELSE ("list-type" :> list_type), <<>>, items, <<>>)

ListItems ==
    {Item(<<"a">>, <<>>), Item(<<"b">>, <<>>),
     Item(<<"n">>, <<ListOf(<<>>, <<Item(<<"c">>, <<>>)>>)>>)}

ListTypes == {<<>>, <<"bulleted">>, <<"enumerated">>}

ListInputs ==
    {Document(<<ListOf(t, items)>>) : t \in ListTypes, items \in SeqsUpTo(ListItems, MaxListItems)}

InitList ==
    /\ variant \in ModuleVariants
    /\ elem \in ListInputs
    /\ result = <<>>
    /\ exc = "none"
    /\ pc = "ready"

NextList == ConvertModule \/ ConvertAppendix

SpecList == InitList /\ [][NextList]_vars

ListOpenings == {"<ul>", "<ol>", "<ol marker=\""}

ListClosings == {"</ul>", "</ol>"}

\* How many lists are open before position i of s.
ListDepth(s, i) ==
    Cardinality({k \in 1..(i - 1) : s[k] \in ListOpenings})
    - Cardinality({k \in 1..(i - 1) : s[k] \in ListClosings})

\* The <li> tokens of the outermost list of s.
OuterItems(s) == {i \in 1..Len(s) : s[i] = "<li>" /\ ListDepth(s, i) = 1}

\* The first list opening and the last list closing of s ("none": no list).
FirstOpening(s) ==
    LET at == {i \in 1..Len(s) : s[i] \in ListOpenings}
    IN  IF at = {} THEN "none" ELSE s[CHOOSE i \in at : \A j \in at : i <= j]

LastClosing(s) ==
    LET at == {i \in 1..Len(s) : s[i] \in ListClosings}
    IN  IF at = {} THEN "none" ELSE s[CHOOSE i \in at : \A j \in at : i >= j]

SourceList == elem.kids[2].kids[1]

\* C24: the emitted list tag is <ol> when list-type is 'enumerated' and <ul>
\* when it is 'bulleted' or absent, the closing tag matches, the list holds
\* one <li> per item that is a direct child of the list, and the content of
\* each item, nested items included, appears exactly once.
C24_ListItems ==
    pc = "done" =>
        LET ordered == Attr(SourceList, "list-type", <<>>) = <<"enumerated">>
        IN  /\ FirstOpening(result) = IF ordered THEN "<ol>" ELSE "<ul>"
            /\ LastClosing(result) = IF ordered THEN "</ol>" ELSE "</ul>"
            /\ Cardinality(OuterItems(result)) = Len(FindAllChildren(SourceList, "c", "item"))
            /\ \A ch \in {"a", "b", "n", "c"} :
                   Count(result, ch) = Count(itertext(SourceList), ch)

\* The same for convert_appendices.py, and for lists without a nested list.
C24_AppendixLists == variant = "appendices" => C24_ListItems

C24_FlatLists == FindAll(SourceList, "c", "list") = <<>> => C24_ListItems

(***************************************************************************)
(* The conversion of a module whose content root holds one example or       *)
(* exercise with a problem and a solution (SpecExample).                    *)
(***************************************************************************)

\* The most children of an input problem.
MaxProblemKids == 2

ProblemKids ==
    {Para(<<"a">>, <<>>), ListOf(<<>>, <<Item(<<"b">>, <<>>)>>),
     ListOf(<<>>, <<Item(<<>>, <<Para(<<"c">>, <<>>)>>)>>)}

Solutions == {<<>>, <<E("solution", NoAttrib, <<>>, <<Para(<<"s">>, <<>>)>>, <<>>)>>}

ExampleInputs ==
    {Document(<<E(tag, ("id" :> <<"e1">>), <<>>,
                  <<E("problem", NoAttrib, <<>>, kids, <<>>)>> \o solution, <<>>)>>) :
        tag \in {"example", "exercise"}, kids \in SeqsUpTo(ProblemKids, MaxProblemKids),
        solution \in Solutions}

InitExample ==
    /\ variant \in ModuleVariants
    /\ elem \in ExampleInputs
    /\ result = <<>>
    /\ exc = "none"
    /\ pc = "ready"

NextExample == ConvertModule \/ ConvertAppendix

SpecExample == InitExample /\ [][NextExample]_vars

\* The text fragments of the blocks, in the order they stand in s.
Fragments(s) == SelectSeq(s, LAMBDA t : t \in {"a", "b", "c", "s"})

StatementEmitted == pc = "done" /\ \E i \in 1..Len(result) : result[i] = "<statement>"

\* C25: the blocks inside <statement> and <solution> are the conversions of
\* the direct structural children of the problem and of the solution, each
\* emitted once and in document order: a list before a paragraph stays
\* before it, and a paragraph inside a list item is not emitted again as a
\* sibling paragraph.
C25_BlocksInOrder ==
    StatementEmitted => Fragments(result) = Fragments(itertext(elem.kids[2].kids[1]))

\* The same for problems whose children are paragraphs only.
C25_ParagraphsOnly ==
    FindAll(elem, "c", "list") = <<>> => C25_BlocksInOrder

(***************************************************************************)
(* The conversion of a module whose content root holds one example, note,   *)
(* exercise or section, with or without a title of its own, that holds      *)
(* titled figures (SpecTitle).                                              *)
(***************************************************************************)

\* The most blocks inside the input element.
MaxTitleKids == 2

TitledFigure(title) ==
    E("figure", ("id" :> <<"f1">>), <<>>,
      title \o <<E("media", NoAttrib, <<>>, <<Image(<<"5", "0", "%">>)>>, <<>>)>>, <<>>)

TitleKids ==
    {Para(<<"a">>, <<>>), TitledFigure(<<Title(<<"F">>)>>), TitledFigure(<<>>)}

TitleInputs ==
    {Document(<<E(tag, ("id" :> <<"e1">>), <<>>, own \o kids, <<>>)>>) :
        tag \in {"example", "note", "exercise", "section"},
        own \in {<<>>, <<Title(<<"T">>)>>},
        kids \in SeqsUpTo(TitleKids, MaxTitleKids)}

InitTitle ==
    /\ variant \in ModuleVariants
    /\ elem \in TitleInputs
    /\ result = <<>>
    /\ exc = "none"
    /\ pc = "ready"

NextTitle == ConvertModule \/ ConvertAppendix

SpecTitle == InitTitle /\ [][NextTitle]_vars

\* The position of the first figure of s (Len(s) + 1: no figure).
FirstFigure(s) ==
    LET at == {i \in 1..Len(s) : s[i] \in {"<figure", "<figure xml:id=\""}}
    IN  IF at = {} THEN Len(s) + 1 ELSE CHOOSE i \in at : \A j \in at : i <= j

\* The texts of the <title> elements of s that stand before its first
\* figure: the titles of the containers that hold the figures.
ContainerTitles(s) ==
    {s[i + 1] : i \in {k \in 1..(Len(s) - 1) : s[k] = "<title>" /\ k < FirstFigure(s)}}

\* C26: the title emitted for an example, note, exercise or section is taken
\* only from a title element that is a direct child of it: without a title
\* child of its own no <title> is emitted from the title of a descendant.
C26_OwnTitleOnly == pc = "done" => "F" \notin ContainerTitles(result)

\* The same for convert_appendices.py, and for sections.
C26_AppendixTitles == variant = "appendices" => C26_OwnTitleOnly

C26_SectionTitles == elem.kids[2].kids[1].tag = "section" => C26_OwnTitleOnly

(***************************************************************************)
(* The Math Rewriter applied to indented expression trees (SpecIndent).     *)
(***************************************************************************)

\* The most operands of a construct of an indented tree.
MaxIndentOperands == 2

PlainTrees ==
    {M("math", <<>>, <<c>>) :
        c \in MathOperands
              \cup {M(t, <<>>, ops) : t \in ConstructTags,
                                      ops \in SeqsUpTo(MathLeaves, MaxIndentOperands)}}

\* e as a pretty-printer writes it: pad is the text of every node that has
\* children and the tail text of every child.
RECURSIVE Indent(_, _)
Indent(e, pad) ==
    IF e.kids = <<>> THEN e
    ELSE [e EXCEPT !.text = pad,
                   !.kids = [i \in 1..Len(e.kids) |->
                                [Indent(e.kids[i], pad) EXCEPT !.tail = pad]]]

\* e without its whitespace-only tail texts and without the whitespace-only
\* texts of the nodes that have children.
RECURSIVE Unindent(_)
Unindent(e) ==
    [e EXCEPT !.text = IF e.kids # <<>> /\ strip(e.text) = <<>> THEN <<>> ELSE e.text,
              !.tail = IF strip(e.tail) = <<>> THEN <<>> ELSE e.tail,
              !.kids = [i \in 1..Len(e.kids) |-> Unindent(e.kids[i])]]

IndentInputs == {Indent(t, pad) : t \in PlainTrees, pad \in {<<>>, <<"\n", " ">>}}

InitIndent ==
    /\ variant \in MathVariants
    /\ elem \in IndentInputs
    /\ result = <<>>
    /\ exc = "none"
    /\ pc = "ready"

NextIndent == RewriteMath

SpecIndent == InitIndent /\ [][NextIndent]_vars

\* C27: in the Math Rewriter whitespace-only text is treated as absent: a
\* node with children whose own text is only whitespace is rewritten from
\* its children as if it had no text, and a whitespace-only tail adds
\* nothing; the rewrite of an indented tree equals the rewrite of the same
\* tree without indentation, in every script.
C27_IndentationIgnored == pc = "done" => result = Rewritten(Unindent(elem))

\* The same for the scripts other than convert_ch06.py.
C27_OtherScripts == variant # "ch06" => C27_IndentationIgnored

(***************************************************************************)
(* C28, in SpecPara: the paragraphs that process_para of                    *)
(* convert_ch09_full.py splits around a table.                              *)
(***************************************************************************)

\* The text fragments of the children of the input paragraphs, in the order
\* they stand in s.
SplitFragments(s) == SelectSeq(s, LAMBDA t : t \in {"x", "b", "s", "c"})

SplitAtTable == pc = "done" /\ variant = "ch09_full" /\ Find(elem, "c", "table") # None

\* C28: when process_para splits a paragraph around a table no content of
\* the paragraph is lost or duplicated: what follows the table in the source
\* follows it in the output, and the cell text of a table that is not a
\* direct child is not flattened into the leading paragraph as well.
C28_NoLossAtSplit == SplitAtTable => SplitFragments(result) = SplitFragments(itertext(elem))

\* The same when the table is the last child of the paragraph.
C28_TableLast ==
    elem.kids # <<>> /\ elem.kids[Len(elem.kids)].tag = "table" /\ Len(FindAll(elem, "c", "table")) = 1
        => C28_NoLossAtSplit

(***************************************************************************)
(* C29, in SpecEscape: what an XML reader decodes from escape_xml's output. *)
(***************************************************************************)

\* The text an XML reader gives back for the markup s: each of the five
\* entities stands for its character, read once from the left.
RECURSIVE XmlDecode(_)
XmlDecode(s) ==
    IF s = <<>> THEN <<>>
    ELSE IF StartsWith(s, amp) THEN <<"&">> \o XmlDecode(SubSeq(s, Len(amp) + 1, Len(s)))
    ELSE IF StartsWith(s, lt) THEN <<"<">> \o XmlDecode(SubSeq(s, Len(lt) + 1, Len(s)))
    ELSE IF StartsWith(s, gt) THEN <<">">> \o XmlDecode(SubSeq(s, Len(gt) + 1, Len(s)))
    ELSE IF StartsWith(s, quot) THEN <<"\"">> \o XmlDecode(SubSeq(s, Len(quot) + 1, Len(s)))
    ELSE IF StartsWith(s, apos) THEN <<"'">> \o XmlDecode(SubSeq(s, Len(apos) + 1, Len(s)))
    ELSE <<Head(s)>> \o XmlDecode(Tail(s))

\* The source text holds the characters of an entity.
HoldsEntity(s) ==
    \E i \in 1..Len(s) : \E entity \in {amp, lt, gt, quot, apos} :
        StartsWith(SubSeq(s, i, Len(s)), entity)

\* C29: escape_xml is information-preserving: decoding the entities of
\* escape_xml(t) gives back t, so two different source texts never escape
\* to the same output.
C29_EscapeInjective ==
    pc = "escaped" /\ variant = "appendices" => XmlDecode(result) = elem

\* The same for source texts that hold no entity.
C29_NoEntityInSource == ~HoldsEntity(elem) => C29_EscapeInjective

(***************************************************************************)
(* The conversion by convert_appendices.py of a module whose content root   *)
(* holds one note with a title or a label (SpecNoteTitle).                  *)
(***************************************************************************)

\* The most children of an input note besides its title and label.
MaxBodyKids == 2

Label(text) == E("label", NoAttrib, text, <<>>, <<>>)

SkippedKids ==
    {<<>>, <<Title(<<"T">>)>>, <<Label(<<"L">>)>>, <<Title(<<"T">>), Label(<<"L">>)>>}

BodyKids ==
    {Emphasis(<<"bold">>, <<"x">>), E("term", NoAttrib, <<"y">>, <<>>, <<>>),
     Para(<<"a">>, <<>>), ListOf(<<>>, <<Item(<<"b">>, <<>>)>>)}

NoteTitleInputs ==
    {Document(<<E("note", ("id" :> <<"n1">>), text, skipped \o kids, <<>>)>>) :
        text \in {<<>>, <<"d">>}, skipped \in SkippedKids,
        kids \in SeqsUpTo(BodyKids, MaxBodyKids)}

InitNoteTitle ==
    /\ variant = "appendices"
    /\ elem \in NoteTitleInputs
    /\ result = <<>>
    /\ exc = "none"
    /\ pc = "ready"

NextNoteTitle == ConvertAppendix

SpecNoteTitle == InitNoteTitle /\ [][NextNoteTitle]_vars

\* C30: in process_element_content a child whose tag is in skip_tags (title,
\* label) contributes nothing to the returned body on any branch: the text
\* of the note's title or label stands only in the emitted <title>, never
\* in the body.
C30_SkippedOutsideBody ==
    pc = "done" =>
        \A i \in 1..Len(result) :
            result[i] \in {"T", "L"} => i > 1 /\ result[i - 1] = "<title>"

\* The same for notes that hold a block (a paragraph or a list) and no text
\* of their own.
C30_BlockBranch ==
    LET note == elem.kids[2].kids[1]
    IN  note.text = <<>> /\ (\E i \in 1..Len(note.kids) : note.kids[i].tag \in {"para", "list"})
            => C30_SkippedOutsideBody

====
